---- MODULE Spec2Model ----
(***************************************************************************)
(* A model of the DAG executors of merlin-core (merlin/dag/executors.py).  *)
(*                                                                         *)
(* A table (pandas/cudf DataFrame) is a row count and a sequence of        *)
(* columns; a column carries its name, the producer of its values (0 is    *)
(* the root table, n > 0 is the operator of node n), its element dtype and *)
(* whether it is a list column.  Python exceptions are error records that  *)
(* short-cut the rest of the call.                                         *)
(***************************************************************************)
EXTENDS Integers, Sequences, FiniteSets, TLC

\* ------------------------------------------------------------------ bounds
\* The number of partitions of the partitioned table; partition p has p - 1
\* rows, so that the first partition is an empty table.
NumPartitions == 2

\* ---------------------------------------------------------------- universe
\* Node 0 stands for an object that is not a Node (an element of a list
\* handed to transform); nodes 1 and 2 are upstream of node 3.
Nodes == {1, 2, 3}
NotANode == 0
Cols == {"a", "b", "x"}
DTypes == {"int64", "float64"}
RootColumnNames == <<"a", "b">>

VARIABLES
    parents_with_dependencies,  \* Node.parents_with_dependencies: node -> Seq(node)
    input_schema,               \* Node.input_schema.column_names: node -> Seq(name)
    output_schema,              \* Node.output_schema.column_schemas: node -> Seq([name, dtype, is_list])
    dependency_columns,         \* Node.dependency_columns.names: node -> SUBSET Cols
    op,                         \* Node.op: what the operator's transform does
    hashOrder,                  \* the iteration order of a Python set of column names
    graph_arg,                  \* the graph argument the caller passes to transform
    additional_arg,             \* the additional_columns argument the caller passes
    worker_cache,               \* merlin.io.worker's cache: "stale" or "clean"
    last,                       \* the last executor call: arguments and outcome
    parents,                    \* Node.parents: node -> Seq(node), without the dependency nodes
    stat,                       \* Node.op.fit / fit_finalize: what a stateful operator's methods do
    fit_nodes,                  \* the nodes argument the caller passes to DaskExecutor.fit
    fitted,                     \* the nodes whose operator's fit_finalize has completed
    fit,                        \* the DaskExecutor.fit call in progress
    bo,                         \* a BaseOperator, the arguments of its schema methods and their results
    dask,                       \* merlin.core.utils: _merlin_dask_client, the Dask clients, the contexts
    shapes                      \* merlin.dtypes.shape: constructor arguments, the objects built, the last comparison

graphVars == <<parents_with_dependencies, input_schema, dependency_columns, op, hashOrder,
               parents, stat>>
callVars == <<graph_arg, additional_arg, fit_nodes>>
fitVars == <<fitted, fit>>
\* what the executors never read or write
utilVars == <<bo, dask, shapes>>
\* what the executors read or write
executorVars == <<parents_with_dependencies, input_schema, output_schema, dependency_columns,
                  op, hashOrder, graph_arg, additional_arg, worker_cache, last,
                  parents, stat, fit_nodes, fitted, fit>>
vars == <<parents_with_dependencies, input_schema, output_schema, dependency_columns,
          op, hashOrder, graph_arg, additional_arg, worker_cache, last,
          parents, stat, fit_nodes, fitted, fit, bo, dask, shapes>>

\* ------------------------------------------------------------------ tables
ToSet(s) == {s[i] : i \in 1..Len(s)}

Max(a, b) == IF a >= b THEN a ELSE b

Reverse(s) == [i \in 1..Len(s) |-> s[Len(s) + 1 - i]]

None == [none |-> TRUE, rows |-> 0, cols |-> <<>>]

Tbl(rows, cols) == [none |-> FALSE, rows |-> rows, cols |-> cols]

Column(name, src, dtype, is_list) ==
    [name |-> name, src |-> src, dtype |-> dtype, is_list |-> is_list]

ColumnNames(t) == [i \in 1..Len(t.cols) |-> t.cols[i].name]

RootTable(rows) ==
    Tbl(rows, [i \in 1..Len(RootColumnNames) |->
                  Column(RootColumnNames[i], 0, "int64", FALSE)])

\* errors (Python exceptions)
Ok == [kind |-> "ok", node |-> 0, col |-> ""]
Err(kind, node, col) == [kind |-> kind, node |-> node, col |-> col]

\* The state threaded through one executor call: the exception raised (if
\* any), the value computed, the nodes' output schemas and the event log.
X(err, tbl, sch, log) == [err |-> err, tbl |-> tbl, sch |-> sch, log |-> log]

Raise(x, err) == [x EXCEPT !.err = err, !.tbl = None]

Event(ev, node, arg, cols, tbl) ==
    [ev |-> ev, node |-> node, arg |-> arg, cols |-> cols, tbl |-> tbl]

Logged(x, e) == [x EXCEPT !.log = Append(@, e)]

\* _get_unique: the list without repeated names, first occurrences kept in order
RECURSIVE _get_unique(_)
_get_unique(cols) ==
    IF cols = <<>> THEN <<>>
    ELSE LET front == _get_unique(SubSeq(cols, 1, Len(cols) - 1))
             x == cols[Len(cols)]
         IN IF x \in ToSet(front) THEN front ELSE Append(front, x)

\* list(a_set): the elements in the interpreter's iteration order
SetToList(S) == SelectSeq(hashOrder, LAMBDA c : c \in S)

\* df[names]: the columns called names[1], names[2], ... in that order (every
\* column of that name when the frame holds the name twice)
RECURSIVE SelectCols(_, _)
SelectCols(cols, names) ==
    IF names = <<>> THEN <<>>
    ELSE SelectSeq(cols, LAMBDA c : c.name = names[1]) \o SelectCols(cols, Tail(names))

\* df[names] raises KeyError when a name is not a column of df
SelectFails(t, names) == ~(ToSet(names) \subseteq ToSet(ColumnNames(t)))

Select(t, names) == Tbl(t.rows, SelectCols(t.cols, names))

\* merlin.core.dispatch.concat_columns: column-wise concatenation
concat_columns(args) ==
    IF Len(args) = 1 THEN args[1]
    ELSE Tbl(Max(args[1].rows, args[2].rows), args[1].cols \o args[2].cols)

\* ------------------------------------------------------------ the operator
\* node.output_schema.column_names
OutputColumnNames(sch, node) == [i \in 1..Len(sch[node]) |-> sch[node][i].name]

\* The column an operator's transform returns in addition to the declared ones
ExtraColumn == "b"

\* The names of the columns node.op.transform returns, in the order it returns
\* them: the declared output columns, or an undeclared column followed by the
\* declared ones in reverse order.
OpColumnNames(sch, node) ==
    IF op[node].cols = "declared" THEN OutputColumnNames(sch, node)
    ELSE <<ExtraColumn>> \o Reverse(OutputColumnNames(sch, node))

\* node.op.transform(selection, input_data): None, or a table whose values the
\* operator of this node computed; the dtype of a column the operator computes
\* from an input without rows may differ from the dtype it computes from rows
OpTransform(sch, node, input_data) ==
    IF op[node].kind = "none" THEN None
    ELSE LET names == OpColumnNames(sch, node)
         IN Tbl(IF op[node].rows = "keep" THEN input_data.rows ELSE 0,
                [i \in 1..Len(names) |->
                    Column(names[i], node,
                           IF input_data.rows = 0 THEN op[node].empty_dtype[names[i]]
                           ELSE op[node].dtype[names[i]],
                           op[node].is_list)])

\* ------------------------------------------------------------ LocalExecutor
\* x, and then Rest(x) unless x raised
Try(x, Rest(_)) == IF x.err # Ok THEN x ELSE Rest(x)

RECURSIVE TransformNodes(_, _, _, _, _, _)
RECURSIVE ParentLoop(_, _, _, _, _, _, _)

\* The dtype loop without `elif len(output_data)`: an empty table is validated too
RECURSIVE DtypeLoopValidatesEmpty(_, _, _, _, _)
DtypeLoopValidatesEmpty(x, node, output_data, i, capture_dtypes) ==
    IF i > Len(x.sch[node]) THEN x
    ELSE IF output_data.none
    THEN Raise(x, Err("TypeError:NoneType", node, x.sch[node][i].name))
    ELSE IF ~capture_dtypes
            /\ x.sch[node][i].dtype # Select(output_data, <<x.sch[node][i].name>>).cols[1].dtype
    THEN Raise(x, Err("TypeError:dtype", node, x.sch[node][i].name))
    ELSE DtypeLoopValidatesEmpty(
             IF capture_dtypes
             THEN [x EXCEPT !.sch[node][i].dtype =
                      Select(output_data, <<x.sch[node][i].name>>).cols[1].dtype,
                            !.sch[node][i].is_list =
                      Select(output_data, <<x.sch[node][i].name>>).cols[1].is_list]
             ELSE x,
             node, output_data, i + 1, capture_dtypes)

\* The dtype loop with with_dtype(col_dtype) in place of
\* with_dtype(col_dtype, is_list=is_list): the list flag is not captured
RECURSIVE DtypeLoopKeepsListFlag(_, _, _, _, _)
DtypeLoopKeepsListFlag(x, node, output_data, i, capture_dtypes) ==
    IF i > Len(x.sch[node]) THEN x
    ELSE IF output_data.none
    THEN Raise(x, Err("TypeError:NoneType", node, x.sch[node][i].name))
    ELSE IF ~capture_dtypes /\ output_data.rows > 0
            /\ x.sch[node][i].dtype # Select(output_data, <<x.sch[node][i].name>>).cols[1].dtype
    THEN Raise(x, Err("TypeError:dtype", node, x.sch[node][i].name))
    ELSE DtypeLoopKeepsListFlag(
             IF capture_dtypes
             THEN [x EXCEPT !.sch[node][i].dtype =
                      Select(output_data, <<x.sch[node][i].name>>).cols[1].dtype]
             ELSE x,
             node, output_data, i + 1, capture_dtypes)

\* LocalExecutor._transform_data, the loop over node.output_schema.column_schemas
\* from column i on
\* The dtype loop whose capture adds the observed column schema to the node's
\* output schema where the observed dtype differs, leaving the declared one
RECURSIVE DtypeLoopCaptureAppends(_, _, _, _, _)
DtypeLoopCaptureAppends(x, node, output_data, i, capture_dtypes) ==
    IF i > Len(x.sch[node]) THEN x
    ELSE LET output_col_schema == x.sch[node][i]
             col_name == output_col_schema.name
         IN IF output_data.none
            THEN Raise(x, Err("TypeError:NoneType", node, col_name))
            ELSE IF SelectFails(output_data, <<col_name>>)
            THEN Raise(x, Err("KeyError", node, col_name))
            ELSE LET col_series == Select(output_data, <<col_name>>).cols[1]
                     output_data_schema ==
                         [output_col_schema EXCEPT !.dtype = col_series.dtype,
                                                   !.is_list = col_series.is_list]
                 IN IF ~capture_dtypes /\ output_data.rows > 0
                       /\ output_col_schema.dtype # output_data_schema.dtype
                    THEN Raise(x, Err("TypeError:dtype", node, col_name))
                    ELSE DtypeLoopCaptureAppends(
                             IF capture_dtypes /\ output_data_schema # output_col_schema
                             THEN [x EXCEPT !.sch[node] = Append(@, output_data_schema)]
                             ELSE x,
                             node, output_data, i + 1, capture_dtypes)

RECURSIVE DtypeLoop(_, _, _, _, _)
DtypeLoop(x, node, output_data, i, capture_dtypes) ==
    IF i > Len(x.sch[node]) THEN x
    ELSE LET output_col_schema == x.sch[node][i]
             col_name == output_col_schema.name
         IN IF output_data.none
            THEN Raise(x, Err("TypeError:NoneType", node, col_name))
            ELSE IF SelectFails(output_data, <<col_name>>)
            THEN Raise(x, Err("KeyError", node, col_name))
            ELSE LET col_series == Select(output_data, <<col_name>>).cols[1]
                     output_data_schema ==
                         [output_col_schema EXCEPT !.dtype = col_series.dtype,
                                                   !.is_list = col_series.is_list]
                 IN IF ~capture_dtypes /\ output_data.rows > 0
                       /\ output_col_schema.dtype # output_data_schema.dtype
                    THEN Raise(x, Err("TypeError:dtype", node, col_name))
                    ELSE DtypeLoop(IF capture_dtypes
                                   THEN [x EXCEPT !.sch[node][i] = output_data_schema]
                                   ELSE x,
                                   node, output_data, i + 1, capture_dtypes)

\* LocalExecutor._transform_data, once node.op.transform has returned output_data
CheckOutput(x, node, output_data, capture_dtypes) ==
    Try(DtypeLoop(Logged(x, Event("returned", node, 0, <<>>, output_data)),
                  node, output_data, 1, capture_dtypes),
        LAMBDA checked :
            IF output_data.none
            THEN Raise(checked, Err("RuntimeError", node, ""))
            ELSE [Logged(checked, Event("transformed", node, 0, checked.sch[node], output_data))
                     EXCEPT !.tbl = output_data])

\* _transform_data with an `except` that swallows the operator's exception and
\* hands the input on
TransformDataSwallows(x, node, input_data, capture_dtypes) ==
    IF op[node].kind = "raise"
    THEN [Logged(x, Event("op", node, 0, <<>>, input_data)) EXCEPT !.tbl = input_data]
    ELSE CheckOutput(Logged(x, Event("op", node, 0, <<>>, input_data)), node,
                     OpTransform(x.sch, node, input_data), capture_dtypes)

\* LocalExecutor._transform_data
_transform_data(x, node, input_data, capture_dtypes) ==
    IF op[node].kind = "raise"
    THEN Raise(Logged(x, Event("op", node, 0, <<>>, input_data)), Err("OpError", node, ""))
    ELSE CheckOutput(Logged(x, Event("op", node, 0, <<>>, input_data)), node,
                     OpTransform(x.sch, node, input_data), capture_dtypes)

\* _combine_node_outputs without the selection of the declared columns
CombineWithoutSelection(x, node, transformed_data, output) ==
    IF output.none THEN [x EXCEPT !.tbl = transformed_data]
    ELSE [x EXCEPT !.tbl = concat_columns(<<output, transformed_data>>)]

\* LocalExecutor._combine_node_outputs
_combine_node_outputs(x, node, transformed_data, output) ==
    LET node_output_cols == _get_unique(OutputColumnNames(x.sch, node))
    IN IF SelectFails(transformed_data, node_output_cols)
       THEN Raise(x, Err("KeyError", node, ""))
       ELSE IF output.none
       THEN [x EXCEPT !.tbl = Select(transformed_data, node_output_cols)]
       ELSE [x EXCEPT !.tbl =
                concat_columns(<<output, Select(transformed_data, node_output_cols)>>)]

\* transformable[names], read by node (0: by transform itself), appended to input_data
FetchRoot(x, node, transformable, names, input_data) ==
    IF SelectFails(transformable, names)
    THEN Raise(Logged(x, Event("read", node, 0, names, None)), Err("KeyError", node, ""))
    ELSE [Logged(x, Event("read", node, 0, names, None)) EXCEPT !.tbl =
             IF input_data.none THEN Select(transformable, names)
             ELSE concat_columns(<<input_data, Select(transformable, names)>>)]

\* LocalExecutor._build_input_data, after the loop over the parents
AfterParents(x, node, transformable, input_data, seen_columns) ==
    LET unseen_columns == ToSet(input_schema[node]) \ seen_columns
        addl_input_cols ==
            (dependency_columns[node] \cup unseen_columns) \ ToSet(ColumnNames(input_data))
    IN IF addl_input_cols = {} THEN [x EXCEPT !.tbl = input_data]
       ELSE FetchRoot(x, node, transformable, SetToList(addl_input_cols), input_data)

\* LocalExecutor._build_input_data, one turn of the loop: parent_data is merged
\* into input_data
MergeParent(x, node, parent, parent_data, input_data, seen_columns) ==
    LET parent_output_cols == _get_unique(OutputColumnNames(x.sch, parent))
        new_columns == ToSet(parent_output_cols) \ seen_columns
    IN IF input_data.none \/ input_data.rows = 0
       THEN IF SelectFails(parent_data, parent_output_cols)
            THEN [x |-> Raise(x, Err("KeyError", node, "")), seen |-> {}]
            ELSE [x |-> [x EXCEPT !.tbl = Select(parent_data, parent_output_cols)],
                  seen |-> ToSet(parent_output_cols)]
       ELSE IF SelectFails(parent_data, SetToList(new_columns))
            THEN [x |-> Raise(x, Err("KeyError", node, "")), seen |-> {}]
            ELSE [x |-> [x EXCEPT !.tbl = concat_columns(
                            <<input_data, Select(parent_data, SetToList(new_columns))>>)],
                  seen |-> seen_columns \cup new_columns]

\* The loop over the parents that ends after its first turn
NextParentStops(m, node, transformable, i, capture_dtypes) ==
    IF m.x.err # Ok THEN m.x
    ELSE AfterParents(m.x, node, transformable, m.x.tbl, m.seen)

\* LocalExecutor._build_input_data, the loop over node.parents_with_dependencies
\* after parent i has been merged (m: the accumulator and seen_columns)
NextParent(m, node, transformable, i, capture_dtypes) ==
    IF m.x.err # Ok THEN m.x
    ELSE ParentLoop(m.x, node, transformable, i + 1, m.x.tbl, m.seen, capture_dtypes)

\* The loop over the parents with a cache: a parent that has already returned
\* a table in this call is not transformed again
CachedTable(log, parent) ==
    log[CHOOSE j \in 1..Len(log) : log[j].ev = "parent" /\ log[j].arg = parent].tbl
ParentLoopMemoized(x, node, transformable, i, input_data, seen_columns, capture_dtypes) ==
    IF i > Len(parents_with_dependencies[node])
    THEN AfterParents(x, node, transformable, input_data, seen_columns)
    ELSE IF \E j \in 1..Len(x.log) :
               x.log[j].ev = "parent" /\ x.log[j].arg = parents_with_dependencies[node][i]
    THEN NextParent(MergeParent(Logged(x, Event("parent", node,
                                          parents_with_dependencies[node][i], <<>>,
                                          CachedTable(x.log, parents_with_dependencies[node][i]))),
                                node, parents_with_dependencies[node][i],
                                CachedTable(x.log, parents_with_dependencies[node][i]),
                                input_data, seen_columns),
                    node, transformable, i, capture_dtypes)
    ELSE Try(TransformNodes(x, transformable, <<parents_with_dependencies[node][i]>>, 1,
                            None, capture_dtypes),
             LAMBDA xp :
                NextParent(MergeParent(Logged(xp, Event("parent", node,
                                                  parents_with_dependencies[node][i],
                                                  <<>>, xp.tbl)),
                                       node, parents_with_dependencies[node][i], xp.tbl,
                                       input_data, seen_columns),
                           node, transformable, i, capture_dtypes))

\* LocalExecutor._build_input_data, the loop over node.parents_with_dependencies
\* from parent i on
ParentLoop(x, node, transformable, i, input_data, seen_columns, capture_dtypes) ==
    IF i > Len(parents_with_dependencies[node])
    THEN AfterParents(x, node, transformable, input_data, seen_columns)
    ELSE Try(TransformNodes(x, transformable, <<parents_with_dependencies[node][i]>>, 1,
                            None, capture_dtypes),
             LAMBDA xp :
                NextParent(MergeParent(Logged(xp, Event("parent", node,
                                                  parents_with_dependencies[node][i],
                                                  <<>>, xp.tbl)),
                                       node, parents_with_dependencies[node][i], xp.tbl,
                                       input_data, seen_columns),
                           node, transformable, i, capture_dtypes))

\* _build_input_data whose input-node branch reads the columns in set order
BuildInputUnordered(x, node, transformable, capture_dtypes) ==
    IF node = NotANode THEN Raise(x, Err("AttributeError", node, ""))
    ELSE Try(IF parents_with_dependencies[node] # <<>>
             THEN ParentLoop(Logged(x, Event("build", node, 0, <<>>, None)),
                             node, transformable, 1, None, {}, capture_dtypes)
             ELSE FetchRoot(Logged(x, Event("build", node, 0, <<>>, None)),
                            node, transformable,
                            SetToList(ToSet(input_schema[node]))
                                \o SetToList(dependency_columns[node]), None),
             LAMBDA built : Logged(built, Event("input", node, 0, <<>>, built.tbl)))

\* LocalExecutor._build_input_data
_build_input_data(x, node, transformable, capture_dtypes) ==
    IF node = NotANode THEN Raise(x, Err("AttributeError", node, ""))
    ELSE Try(IF parents_with_dependencies[node] # <<>>
             THEN ParentLoop(Logged(x, Event("build", node, 0, <<>>, None)),
                             node, transformable, 1, None, {}, capture_dtypes)
             ELSE FetchRoot(Logged(x, Event("build", node, 0, <<>>, None)),
                            node, transformable,
                            _get_unique(input_schema[node])
                                \o SetToList(dependency_columns[node]), None),
             LAMBDA built : Logged(built, Event("input", node, 0, <<>>, built.tbl)))

\* LocalExecutor.transform, the loop over nodes from node i on
TransformNodes(x, transformable, nodes, i, output_data, capture_dtypes) ==
    IF i > Len(nodes) THEN [x EXCEPT !.tbl = output_data]
    ELSE Try(_build_input_data(x, nodes[i], transformable, capture_dtypes), LAMBDA xin :
         Try(IF op[nodes[i]].kind # "noop"
             THEN _transform_data(xin, nodes[i], xin.tbl, capture_dtypes)
             ELSE xin, LAMBDA xt :
         Try(_combine_node_outputs(xt, nodes[i], xt.tbl, output_data), LAMBDA xc :
         TransformNodes(xc, transformable, nodes, i + 1, xc.tbl, capture_dtypes))))

\* The graph argument of transform: a Graph (its output node), a Node, a list
\* (of anything), or an object of another type
GraphArg(type, nodes) == [type |-> type, nodes |-> nodes]

\* LocalExecutor.transform
LocalTransform(x, transformable, graph, additional_columns, capture_dtypes) ==
    IF graph.type \notin {"Graph", "Node", "list"}
    THEN Raise(x, Err("TypeError:graph", 0, ""))
    ELSE Try(TransformNodes(x, transformable, graph.nodes, 1, None, capture_dtypes),
             LAMBDA xn :
                IF additional_columns = <<>> THEN xn
                ELSE FetchRoot(xn, 0, transformable, _get_unique(additional_columns), xn.tbl))

\* ------------------------------------------------------------ DaskExecutor
Partitions == 1..NumPartitions

\* Partition p of ddf; also the single dataframe of a LocalExecutor call
Partition(p) == RootTable(p - 1)

NoPart == [done |-> FALSE, err |-> Ok, tbl |-> None, log |-> <<>>]

\* The executor between two calls
Idle == [fn |-> "idle", partition |-> 0, capture_dtypes |-> FALSE, client |-> FALSE,
         before |-> <<>>,
         err |-> Ok, tbl |-> None, log |-> <<>>,
         nodes |-> <<>>, meta |-> <<>>, pending |-> {}, parts |-> [p \in Partitions |-> NoPart]]

\* node.output_columns.names of every node of the list, flattened
RECURSIVE FlattenOutputColumns(_, _)
FlattenOutputColumns(sch, nodes) ==
    IF nodes = <<>> THEN <<>>
    ELSE OutputColumnNames(sch, nodes[1]) \o FlattenOutputColumns(sch, Tail(nodes))

\* DaskExecutor.transform without self._clear_worker_cache()
DaskTransformNoClear(sch, graph, additional_columns, capture_dtypes, client) ==
    [Idle EXCEPT !.fn = "DaskExecutor.transform", !.capture_dtypes = capture_dtypes,
                 !.client = client, !.before = sch,
                 !.err = IF graph.type \notin {"Graph", "Node", "list"}
                         THEN Err("TypeError:graph", 0, "")
                         ELSE IF NotANode \in ToSet(graph.nodes)
                         THEN Err("AttributeError", NotANode, "")
                         ELSE Ok,
                 !.nodes = IF graph.type \in {"Graph", "Node", "list"}
                              /\ NotANode \notin ToSet(graph.nodes)
                           THEN graph.nodes ELSE <<>>,
                 !.meta = IF graph.type \in {"Graph", "Node", "list"}
                             /\ NotANode \notin ToSet(graph.nodes)
                          THEN _get_unique(FlattenOutputColumns(sch, graph.nodes)
                                               \o additional_columns)
                          ELSE <<>>,
                 !.pending = IF graph.type \in {"Graph", "Node", "list"}
                                /\ NotANode \notin ToSet(graph.nodes)
                                /\ graph.nodes # <<>>
                             THEN Partitions ELSE {}]

\* DaskExecutor.transform with self._clear_worker_cache() ahead of the type check
DaskTransformClearsFirst(sch, graph, additional_columns, capture_dtypes, client) ==
    [Idle EXCEPT !.fn = "DaskExecutor.transform", !.capture_dtypes = capture_dtypes,
                 !.client = client, !.before = sch,
                 !.log = <<Event("clear_worker_cache", 0, IF client THEN 1 ELSE 0, <<>>, None)>>,
                 !.err = IF graph.type \notin {"Graph", "Node", "list"}
                         THEN Err("TypeError:graph", 0, "")
                         ELSE IF NotANode \in ToSet(graph.nodes)
                         THEN Err("AttributeError", NotANode, "")
                         ELSE Ok,
                 !.nodes = IF graph.type \in {"Graph", "Node", "list"}
                              /\ NotANode \notin ToSet(graph.nodes)
                           THEN graph.nodes ELSE <<>>,
                 !.meta = IF graph.type \in {"Graph", "Node", "list"}
                             /\ NotANode \notin ToSet(graph.nodes)
                          THEN _get_unique(FlattenOutputColumns(sch, graph.nodes)
                                               \o additional_columns)
                          ELSE <<>>,
                 !.pending = IF graph.type \in {"Graph", "Node", "list"}
                                /\ NotANode \notin ToSet(graph.nodes)
                             THEN Partitions ELSE {}]

\* DaskExecutor.transform up to the dispatch of map_partitions; client says
\* whether global_dask_client() finds an active client
DaskTransform(sch, graph, additional_columns, capture_dtypes, client) ==
    LET call == [Idle EXCEPT !.fn = "DaskExecutor.transform", !.client = client,
                             !.capture_dtypes = capture_dtypes, !.before = sch]
        cleared == Event("clear_worker_cache", 0, IF client THEN 1 ELSE 0, <<>>, None)
        nodes == graph.nodes
    IN IF graph.type \notin {"Graph", "Node", "list"}
       THEN [call EXCEPT !.err = Err("TypeError:graph", 0, "")]
       ELSE IF nodes = <<>>
       THEN [call EXCEPT !.log = <<cleared>>,
                         !.parts = [p \in Partitions |->
                             [done |-> TRUE, err |-> Ok, log |-> <<>>,
                              tbl |-> IF additional_columns # <<>>
                                      THEN Select(Partition(p), _get_unique(additional_columns))
                                      ELSE Partition(p)]]]
       ELSE IF NotANode \in ToSet(nodes)
       THEN [call EXCEPT !.log = <<cleared>>, !.err = Err("AttributeError", NotANode, "")]
       ELSE [call EXCEPT !.log = <<cleared>>,
                         !.nodes = nodes,
                         !.meta = _get_unique(FlattenOutputColumns(sch, nodes)
                                                  \o additional_columns),
                         !.pending = Partitions]

\* ------------------------------------------------------- DaskExecutor.fit
\* A node whose operator is not a stateful operator, and the stateful operators
NoStat == [kind |-> "none", fit |-> "ok", fit_finalize |-> "ok"]
StatOp(fit_does, finalize_does) ==
    [kind |-> "stat", fit |-> fit_does, fit_finalize |-> finalize_does]

\* A statistic whose computation has not returned
NotComputed == [done |-> FALSE, node |-> 0, err |-> Ok, tables |-> <<>>]

\* DaskExecutor.fit between two calls
FitIdle ==
    [pc |-> "idle", client |-> FALSE, before |-> <<>>, stats |-> <<>>, computed |-> <<>>,
     order |-> <<>>,
     results |-> <<>>, finalized |-> <<>>, err |-> Ok, events |-> <<>>]

\* DaskExecutor.fit: addl_input_cols of a node
AddlFitColumns(sch, node) ==
    IF parents[node] # <<>>
    THEN SetToList(ToSet(input_schema[node])
                       \ ToSet(FlattenOutputColumns(sch, parents_with_dependencies[node])))
    ELSE <<>>

\* The delayed statistic node.op.fit(node.input_columns, transformed_ddf)
\* returns: transformed_ddf is the lazy table d that self.transform built
Delayed(node, additional_columns, d) ==
    [node |-> node, upstream |-> d.nodes, additional_columns |-> additional_columns,
     capture_dtypes |-> d.capture_dtypes, meta |-> d.meta]

\* DaskExecutor.fit, one turn of the loop over nodes, once self.transform has
\* returned the lazy table d
FitNodeStep(f, node, i, additional_columns, d) ==
    IF stat[node].kind # "stat"
    THEN [f EXCEPT !.pc = "raised", !.err = Err("AttributeError", node, ""),
                   !.events = @ \o d.log]
    ELSE IF stat[node].fit = "raise"
    THEN [f EXCEPT !.pc = "raised", !.err = Err("FitError", node, ""),
                   !.events = @ \o d.log \o <<Event("fit", node, i, additional_columns, None)>>]
    ELSE [f EXCEPT !.pc = IF i = Len(fit_nodes) THEN "computing" ELSE "fitting",
                   !.stats = Append(@, Delayed(node, additional_columns, d)),
                   !.computed = Append(@, NotComputed),
                   !.events = @ \o d.log \o <<Event("fit", node, i, additional_columns, None)>>]

\* Partition p of a lazy table built by DaskExecutor.transform, computed
FitPartition(sch, d, p) ==
    IF d.upstream = <<>>
    THEN X(Ok, IF d.additional_columns # <<>>
               THEN Select(Partition(p), _get_unique(d.additional_columns))
               ELSE Partition(p), sch, <<>>)
    ELSE LocalTransform(X(Ok, None, sch, <<>>), Partition(p), GraphArg("list", d.upstream),
                        d.additional_columns, d.capture_dtypes)

\* The partitions of the lazy table of a delayed statistic, computed from
\* partition p on
RECURSIVE ComputeParts(_, _, _, _)
AfterPart(x, d, p, tables) ==
    IF x.err # Ok THEN [err |-> x.err, sch |-> x.sch, tables |-> tables]
    ELSE ComputeParts(x.sch, d, p + 1, Append(tables, x.tbl))

ComputeParts(sch, d, p, tables) ==
    IF p > NumPartitions THEN [err |-> Ok, sch |-> sch, tables |-> tables]
    ELSE AfterPart(FitPartition(sch, d, p), d, p, tables)

\* The computed value of a delayed statistic
Computed(d, c) == [done |-> TRUE, node |-> d.node, err |-> c.err, tables |-> c.tables]

\* The results are taken as soon as one computation has returned
FirstResultReady(f) == \E j \in 1..Len(f.computed) : f.computed[j].done

\* Every scheduled statistic computation has returned
ResultsReady(f) == \A j \in 1..Len(f.computed) : f.computed[j].done

\* results: [r.result() for r in dask_client.compute(stats)] with a client,
\* dask.compute(stats, scheduler="synchronous")[0] without
GatheredAsCompleted(computed, order, client) ==
    IF client THEN [k \in 1..Len(order) |-> computed[order[k]]] ELSE computed

Gathered(computed, order, client) == computed

\* zip(results, nodes)
ZipCrossed(results, nodes) ==
    [i \in 1..(IF Len(results) <= Len(nodes) THEN Len(results) ELSE Len(nodes)) |->
        [computed_stats |-> results[Len(results) + 1 - i], node |-> nodes[i]]]

Zip(results, nodes) ==
    [i \in 1..(IF Len(results) <= Len(nodes) THEN Len(results) ELSE Len(nodes)) |->
        [computed_stats |-> results[i], node |-> nodes[i]]]

\* The first exception among the computed statistics, in list order
RECURSIVE FirstError(_, _)
FirstError(computed, j) ==
    IF j > Len(computed) THEN Ok
    ELSE IF computed[j].err # Ok THEN computed[j].err
    ELSE FirstError(computed, j + 1)

\* ------------------------------------------------------------------- graphs
AllDtype(d) == [c \in Cols |-> d]
XDtype(d) == [c \in Cols |-> IF c = "x" THEN d ELSE "int64"]

\* node.op is None
OpNoop == [kind |-> "noop", rows |-> "keep", cols |-> "declared",
           dtype |-> AllDtype("int64"), empty_dtype |-> AllDtype("int64"), is_list |-> FALSE]
\* an operator whose transform returns None
OpNone == [OpNoop EXCEPT !.kind = "none"]
\* an operator whose transform raises
OpRaise == [OpNoop EXCEPT !.kind = "raise"]
\* an operator whose transform returns a table
BaseOp ==
    [kind |-> "table", rows |-> "keep", cols |-> "declared", dtype |-> AllDtype("int64"),
     empty_dtype |-> AllDtype("int64"), is_list |-> FALSE]
OpTable(rows, cols, dtype, is_list) ==
    [kind |-> "table", rows |-> rows, cols |-> cols, dtype |-> dtype, empty_dtype |-> dtype,
     is_list |-> is_list]
\* an operator that computes float64 columns from an input without rows
OpEmptyFloat == [BaseOp EXCEPT !.empty_dtype = AllDtype("float64")]

\* A freshly propagated output schema: every column int64, not a list
Declared(names) ==
    [i \in 1..Len(names) |-> [name |-> names[i], dtype |-> "int64", is_list |-> FALSE]]

\* An upstream node: a selection of root column a, or an operator that
\* computes x (and a), keeping the rows of its input or returning no rows
Upstream ==
    {[out |-> <<"a">>, f |-> OpNoop]}
    \cup {[out |-> o, f |-> OpTable(r, "declared", AllDtype("int64"), FALSE)] :
             o \in {<<"x">>, <<"a", "x">>}, r \in {"keep", "empty"}}
BaseUpstream == [out |-> <<"a", "x">>, f |-> BaseOp]

TargetInputs == {<<"b", "a">>, <<"x", "b">>}
TargetDependencies == {{}, {"a"}}
TargetOutputs == {<<>>, <<"x">>, <<"a", "x">>, <<"x", "a">>}
TargetOps ==
    {OpNoop, OpNone, OpRaise}
    \cup {OpTable(r, c, d, FALSE) :
             r \in {"keep", "empty"}, c \in {"declared", "permuted"},
             d \in {AllDtype("int64"), AllDtype("float64"), XDtype("float64")}}
    \cup {OpTable("keep", "declared", d, TRUE) :
             d \in {AllDtype("int64"), AllDtype("float64"), XDtype("float64")}}
    \cup {OpEmptyFloat}
HashOrders == {<<"a", "b", "x">>, <<"x", "b", "a">>}
GraphArgs ==
    {GraphArg("Graph", <<3>>), GraphArg("Node", <<3>>), GraphArg("list", <<2, 3>>),
     GraphArg("list", <<3, NotANode>>), GraphArg("other", <<>>)}
AdditionalColumns == {<<>>, <<"b">>, <<"b", "b">>, <<"a", "b">>}

Config(p2, p3, u1, u2, i3, d3, o3, f3, h, g, ac) ==
    [p2 |-> p2, p3 |-> p3, u1 |-> u1, u2 |-> u2, i3 |-> i3, d3 |-> d3, o3 |-> o3,
     f3 |-> f3, h |-> h, g |-> g, ac |-> ac,
     par3 |-> p3, s2 |-> NoStat, s3 |-> NoStat, fn |-> <<>>]

\* Graphs that vary what is upstream of node 3 and what node 3 reads
InputBuildingConfigs ==
    {Config(p2, p3, u1, u2, i3, d3, <<"x">>, BaseOp, h, GraphArg("Node", <<3>>), <<>>) :
        p2 \in {<<>>, <<1>>}, p3 \in {<<>>, <<1>>, <<1, 2>>, <<2, 1>>},
        u1 \in Upstream, u2 \in Upstream, i3 \in TargetInputs, d3 \in TargetDependencies,
        h \in HashOrders}

\* Graphs that vary the operator of node 3 and the output schema it declares
OperatorConfigs ==
    {Config(<<>>, <<1>>, BaseUpstream, BaseUpstream, <<"x", "b">>, {}, o3, f3,
            <<"a", "b", "x">>, GraphArg("Graph", <<3>>), <<>>) :
        o3 \in TargetOutputs, f3 \in TargetOps}

\* Calls that vary the graph argument and the additional columns
CallConfigs ==
    {Config(<<>>, <<1>>, BaseUpstream, BaseUpstream, <<"x", "b">>, {}, o3, f3,
            <<"a", "b", "x">>, g, ac) :
        o3 \in {<<"x">>, <<"x", "a">>},
        f3 \in {OpNoop, BaseOp, OpTable("keep", "permuted", AllDtype("int64"), FALSE)},
        g \in GraphArgs, ac \in AdditionalColumns}

\* What is upstream of node 3: its parents and dependency nodes, which of them
\* are parents, and the columns it reads
FitShapes ==
    {[p3 |-> <<>>, par3 |-> <<>>, i3 |-> <<"b", "a">>],
     [p3 |-> <<1>>, par3 |-> <<1>>, i3 |-> <<"x", "b">>],
     [p3 |-> <<1>>, par3 |-> <<>>, i3 |-> <<"x", "b">>],
     [p3 |-> <<1, 2>>, par3 |-> <<1>>, i3 |-> <<"x", "b">>]}
FitNodes == {<<>>, <<3>>, <<2, 3>>, <<3, 2>>}
StatOps == {StatOp("ok", "ok"), StatOp("raise", "ok"), StatOp("ok", "raise")}

\* Graphs whose nodes 2 and 3 hold stateful operators, and the nodes given to fit
FitConfigs ==
    {[Config(<<>>, g.p3, u1, BaseUpstream, g.i3, {}, <<"x">>, BaseOp, <<"a", "b", "x">>,
             GraphArg("Node", <<3>>), <<>>)
         EXCEPT !.par3 = g.par3, !.s2 = s2, !.s3 = s3, !.fn = fn] :
        g \in FitShapes, u1 \in {BaseUpstream, [out |-> <<"a", "x">>, f |-> OpRaise]},
        s2 \in {StatOp("ok", "ok"), StatOp("ok", "raise")}, s3 \in StatOps, fn \in FitNodes}

Configs == InputBuildingConfigs \cup OperatorConfigs \cup CallConfigs \cup FitConfigs

\* ------------------------------------------------- the operator contract
\* merlin/dag/base_operator.py.  A Schema is a sequence of column
\* descriptors with distinct names, in insertion order; properties are a set
\* of <<key, value>> pairs with distinct keys; a ColumnSelector is its names
\* (without repetition), its tags and whether it is the wildcard "*".
NoDtype == "None"
Unknown == "unknown"

\* ColumnSchema(name)
ColumnSchema(name) ==
    [name |-> name, dtype |-> Unknown, is_list |-> FALSE, is_ragged |-> FALSE,
     tags |-> {}, properties |-> {}]

\* ColumnSchema.with_dtype(dtype, is_list=..., is_ragged=...)
with_dtype(col_schema, dtype, is_list, is_ragged) ==
    [col_schema EXCEPT !.dtype = dtype, !.is_list = is_list, !.is_ragged = is_ragged]

\* ColumnSchema.with_tags(tags): the tags are added
with_tags(col_schema, tags) == [col_schema EXCEPT !.tags = @ \cup tags]

\* dict.update
Update(properties, other) ==
    {p \in properties : \A q \in other : q[1] # p[1]} \cup other

\* ColumnSchema.with_properties(properties)
with_properties(col_schema, properties) ==
    [col_schema EXCEPT !.properties = Update(@, properties)]

\* Schema.column_names
column_names(schema) == [i \in 1..Len(schema) |-> schema[i].name]

\* schema[name]
SchemaColumn(schema, name) ==
    schema[CHOOSE i \in 1..Len(schema) : schema[i].name = name]

\* schema[names]: the named columns, in the order of the names
SchemaColumns(schema, names) == [i \in 1..Len(names) |-> SchemaColumn(schema, names[i])]

\* Schema.__add__: a column of other replaces the column of the same name
\* where it stands, the other columns of other follow
SchemaAdd(schema, other) ==
    [i \in 1..Len(schema) |->
        IF schema[i].name \in ToSet(column_names(other))
        THEN SchemaColumn(other, schema[i].name) ELSE schema[i]]
    \o SelectSeq(other, LAMBDA c : c.name \notin ToSet(column_names(schema)))

\* Schema.apply(ColumnSelector(tags=tags)): the columns carrying one of the tags
SchemaApplyTags(schema, tags) == SelectSeq(schema, LAMBDA c : c.tags \cap tags # {})

\* The names of a sequence without repetition, first occurrence kept
RECURSIVE Unique(_)
Unique(names) ==
    IF names = <<>> THEN <<>>
    ELSE LET rest == Unique(SubSeq(names, 1, Len(names) - 1))
         IN IF names[Len(names)] \in ToSet(rest) THEN rest
            ELSE Append(rest, names[Len(names)])

\* ColumnSelector(names, tags=tags)
ColumnSelector(names, tags) == [all |-> FALSE, names |-> Unique(names), tags |-> tags]

\* ColumnSelector("*")
Wildcard == [all |-> TRUE, names |-> <<>>, tags |-> {}]

\* bool(selector)
SelectorBool(selector) == selector.all \/ selector.names # <<>> \/ selector.tags # {}

\* selector + other
SelectorAdd(selector, other) ==
    [all |-> selector.all \/ other.all, names |-> Unique(selector.names \o other.names),
     tags |-> selector.tags \cup other.tags]

\* ColumnSelector.resolve(schema): the names of the selector that the schema
\* holds, then the columns carrying one of its tags; the wildcard is every column
resolve(selector, schema) ==
    IF selector.all THEN ColumnSelector(column_names(schema), {})
    ELSE ColumnSelector(
             SelectSeq(selector.names, LAMBDA n : n \in ToSet(column_names(schema)))
             \o column_names(SchemaApplyTags(schema, selector.tags)), {})

\* The outcome of a method: the exception it raised, or the value it returned
NoError == [kind |-> "ok", cls |-> "", method |-> "", names |-> <<>>]
Returned(value) == [err |-> NoError, value |-> value]
Raised(err) == [err |-> err, value |-> <<>>]

\* ValueError(f"Missing columns {missing_cols} found in operator{cls} during {method_name}.")
MissingColumns(cls, method_name, missing_cols) ==
    [kind |-> "ValueError", cls |-> cls, method |-> method_name, names |-> missing_cols]

\* An operator: its class, which column_mapping it has and its properties
\* output_dtype, output_tags, output_properties and dynamic_dtypes
Operator(cls, mapping, output_dtype, output_tags, output_properties, dynamic_dtypes) ==
    [cls |-> cls, mapping |-> mapping, output_dtype |-> output_dtype,
     output_tags |-> output_tags, output_properties |-> output_properties,
     dynamic_dtypes |-> dynamic_dtypes]

\* BaseOperator()
BaseOperator == Operator("BaseOperator", "identity", NoDtype, {}, {}, FALSE)

\* _validate_matching_cols that reports nothing as long as one name resolves
ValidateAnyResolves(operator, schema, selector, method_name) ==
    LET resolved_selector == resolve(selector, schema)
    IN IF selector.names # <<>> /\ resolved_selector.names = <<>>
       THEN MissingColumns(operator.cls, method_name, selector.names)
       ELSE NoError

\* BaseOperator._validate_matching_cols; `selector or ColumnSelector()` leaves
\* a selector as it is
_validate_matching_cols(operator, schema, selector, method_name) ==
    LET resolved_selector == resolve(selector, schema)
        missing_cols == SelectSeq(selector.names,
                                  LAMBDA name : name \notin ToSet(resolved_selector.names))
    IN IF missing_cols # <<>>
       THEN MissingColumns(operator.cls, method_name, missing_cols)
       ELSE NoError

\* BaseOperator.compute_selector
compute_selector(operator, schema, selector) ==
    LET given == IF SelectorBool(selector) THEN selector ELSE Wildcard
        err == _validate_matching_cols(operator, schema, given, "compute_selector")
    IN IF err # NoError THEN Raised(err) ELSE Returned(resolve(given, schema))

\* compute_input_schema that narrows the result to the selected columns
ComputeInputSchemaNarrowed(operator, root_schema, parents_schema, deps_schema, selector) ==
    LET err == _validate_matching_cols(operator, SchemaAdd(parents_schema, deps_schema),
                                       selector, "compute_input_schema")
    IN IF err # NoError THEN Raised(err)
       ELSE Returned(SchemaColumns(SchemaAdd(parents_schema, deps_schema),
                                   resolve(selector, SchemaAdd(parents_schema, deps_schema)).names))

\* BaseOperator.compute_input_schema
compute_input_schema(operator, root_schema, parents_schema, deps_schema, selector) ==
    LET err == _validate_matching_cols(operator, SchemaAdd(parents_schema, deps_schema),
                                       selector, "compute_input_schema")
    IN IF err # NoError THEN Raised(err)
       ELSE Returned(SchemaAdd(parents_schema, deps_schema))

\* The name an operator that renames gives to the column it computes from name
Renamed(name) == CASE name = "a" -> "a2" [] name = "b" -> "b2" [] OTHER -> "c2"

\* BaseOperator.column_mapping, and what the operators that override it
\* return: a dict, here the sequence of its items
column_mapping(operator, col_selector) ==
    CASE operator.mapping = "identity" ->
            [i \in 1..Len(col_selector.names) |->
                [out |-> col_selector.names[i], in |-> <<col_selector.names[i]>>]]
      [] operator.mapping = "rename" ->
            [i \in 1..Len(col_selector.names) |->
                [out |-> Renamed(col_selector.names[i]), in |-> <<col_selector.names[i]>>]]
      [] OTHER -> <<[out |-> "y", in |-> col_selector.names]>>

\* BaseOperator.output_column_names
output_column_names(operator, col_selector) ==
    ColumnSelector([i \in 1..Len(column_mapping(operator, col_selector)) |->
                       column_mapping(operator, col_selector)[i].out], {})

\* BaseOperator._compute_dtype
_compute_dtype(operator, col_schema, schema) ==
    LET first == IF schema # <<>> THEN schema[1] ELSE col_schema
    IN IF operator.output_dtype # NoDtype
       THEN with_dtype(col_schema, operator.output_dtype,
                       \E i \in 1..Len(schema) : schema[i].is_list,
                       \E i \in 1..Len(schema) : schema[i].is_ragged)
       ELSE with_dtype(col_schema, first.dtype, first.is_list, first.is_ragged)

\* BaseOperator._compute_tags
_compute_tags(operator, col_schema, schema) ==
    with_tags(with_tags(col_schema, IF schema # <<>> THEN schema[1].tags ELSE {}),
              operator.output_tags)

\* BaseOperator._compute_properties
_compute_properties(operator, col_schema, schema) ==
    with_properties(col_schema,
                    Update(IF schema # <<>> THEN schema[1].properties ELSE {},
                           operator.output_properties))

\* compute_output_schema, one turn of
\* `for output_col_name, input_col_names in self.column_mapping(col_selector).items()`
OutputColumn(operator, schema, item) ==
    _compute_properties(operator,
        _compute_tags(operator,
            _compute_dtype(operator, ColumnSchema(item.out), SchemaColumns(schema, item.in)),
            SchemaColumns(schema, item.in)),
        SchemaColumns(schema, item.in))

RECURSIVE OutputColumns(_, _, _)
OutputColumns(operator, schema, items) ==
    IF items = <<>> THEN <<>>
    ELSE SchemaAdd(OutputColumns(operator, schema, SubSeq(items, 1, Len(items) - 1)),
                   <<OutputColumn(operator, schema, items[Len(items)])>>)

\* compute_output_schema, lines 155-160: the dtypes of the previous output
\* schema; None and a Schema without columns are both false at line 155
PreviousDtypes(operator, output_schema_, prev_output_schema) ==
    IF ~(operator.dynamic_dtypes /\ prev_output_schema # <<>>) THEN Returned(output_schema_)
    ELSE IF ~(ToSet(column_names(output_schema_)) \subseteq ToSet(column_names(prev_output_schema)))
    THEN Raised([kind |-> "KeyError", cls |-> operator.cls, method |-> "compute_output_schema",
                 names |-> SelectSeq(column_names(output_schema_),
                               LAMBDA n : n \notin ToSet(column_names(prev_output_schema)))])
    ELSE Returned([i \in 1..Len(output_schema_) |->
                      [output_schema_[i] EXCEPT
                          !.dtype = SchemaColumn(prev_output_schema, output_schema_[i].name).dtype]])

\* compute_output_schema, lines 132-141: the selector the columns are mapped from
ExpandedSelector(schema, col_selector) ==
    LET given == IF ~SelectorBool(col_selector)
                 THEN ColumnSelector(column_names(schema), {}) ELSE col_selector
    IN IF given.tags # {}
       THEN [SelectorAdd(given, ColumnSelector(column_names(SchemaApplyTags(schema, given.tags)),
                                               {}))
                EXCEPT !.tags = {}]
       ELSE given

\* compute_output_schema that ignores the previous output schema
ComputeOutputSchemaStatic(operator, schema, col_selector, prev_output_schema) ==
    LET err == _validate_matching_cols(operator, schema, ExpandedSelector(schema, col_selector),
                                       "compute_output_schema")
    IN IF err # NoError THEN Raised(err)
       ELSE Returned(OutputColumns(operator, schema,
                                   column_mapping(operator, ExpandedSelector(schema, col_selector))))

\* BaseOperator.compute_output_schema
compute_output_schema(operator, schema, col_selector, prev_output_schema) ==
    LET err == _validate_matching_cols(operator, schema, ExpandedSelector(schema, col_selector),
                                       "compute_output_schema")
    IN IF err # NoError THEN Raised(err)
       ELSE PreviousDtypes(operator,
                           OutputColumns(operator, schema,
                                         column_mapping(operator,
                                                        ExpandedSelector(schema, col_selector))),
                           prev_output_schema)

\* compute_output_schema whose lines 138 and 141 change the selector object
\* of the caller in place
SelectorChangedInPlace(schema, col_selector) ==
    IF SelectorBool(col_selector) THEN ExpandedSelector(schema, col_selector) ELSE col_selector

\* The selector object the caller handed to compute_output_schema, after the
\* call: lines 133 and 138 bind the local name to a new selector, and line 141
\* clears the tags of that new selector
SelectorAfterOutputSchema(schema, col_selector) == col_selector

\* A node before any schema method of its operator is called: the operator,
\* the selector and the schemas handed to the methods, the previous output
\* schema of the first compute_output_schema call, and what the calls returned
NoCall == [method |-> "none", selector |-> Wildcard, prev |-> <<>>, result |-> Returned(<<>>)]
Node(operator, selector, root_schema, parents_schema, deps_schema, prev_output_schema) ==
    [operator |-> operator, selector |-> selector, given |-> selector,
     root_schema |-> root_schema, parents_schema |-> parents_schema,
     deps_schema |-> deps_schema, prev |-> prev_output_schema,
     calls |-> 0, call |-> NoCall, outputs |-> <<>>]
NoOperator == Node(BaseOperator, Wildcard, <<>>, <<>>, <<>>, <<>>)

\* ------------------------------------------------- merlin/core/utils.py
\* A client setting is "auto", None or a Dask client; a Dask client is a
\* number.  Of the Dask library the model keeps the default clients (what
\* get_client() finds, the latest first in line), which clients have a
\* cluster with workers, and which were closed.
Auto == [kind |-> "auto", id |-> 0]
NoClient == [kind |-> "None", id |-> 0]
Client(c) == [kind |-> "client", id |-> c]
\* the clients the caller creates; those set_dask_client deploys come after
UserClients == {1, 2}

NoSerial == [exists |-> FALSE, _initial_client |-> NoClient, _active |-> FALSE, before |-> Auto]
NoDistributed ==
    [exists |-> FALSE, _initial_client |-> NoClient, _client |-> Auto, cluster_type |-> "cpu",
     _allow_shutdown |-> FALSE, _active |-> FALSE, force_new |-> FALSE,
     before |-> Auto, supplied |-> NoClient, detected |-> NoClient, generated |-> {}]
NoUtilCall == [fn |-> "none", client |-> Auto, new_cluster |-> "None", result |-> NoClient,
               err |-> "", deployed |-> {}, closed |-> {}, was_active |-> FALSE]

\* _merlin_dask_client and the Dask clients of the Python context
Context(setting, default, workers) ==
    [setting |-> setting, default |-> default, workers |-> workers, deployed |-> {},
     closed |-> {}, serial |-> NoSerial, distributed |-> NoDistributed,
     setter |-> "none", calls |-> 0, call |-> NoUtilCall]
NoDask == Context(Auto, <<>>, {})

\* The outcome of a function of utils.py: the context it leaves, the value it
\* returns, the exception it raises
Outcome(d, result, err) == [d |-> d, result |-> result, err |-> err]

\* dask.distributed.get_client(): NoClient stands for its ValueError
get_client(d) == IF d.default = <<>> THEN NoClient ELSE Client(d.default[Len(d.default)])

\* merlin_client.cluster and merlin_client.cluster.workers
HasWorkers(d, merlin_client) == merlin_client.kind = "client" /\ merlin_client.id \in d.workers

\* global_dask_client that looks for a Dask client when the setting is None too
GlobalDaskClientIgnoresNone(d) ==
    IF HasWorkers(d, d.setting) THEN Outcome(d, d.setting, "")
    ELSE IF get_client(d) # NoClient
         THEN Outcome([d EXCEPT !.setting = get_client(d)], get_client(d), "")
         ELSE Outcome(d, NoClient, "")

\* global_dask_client()
global_dask_client(d) ==
    IF HasWorkers(d, d.setting) THEN Outcome(d, d.setting, "")
    ELSE IF d.setting.kind \in {"client", "auto"} /\ get_client(d) # NoClient
         THEN Outcome([d EXCEPT !.setting = get_client(d)], get_client(d), "")
         ELSE Outcome(d, NoClient, "")

\* Client(getattr(base, cluster)(**cluster_options)): a new client, which is
\* the default client from now on
NewClient(d) == Cardinality(UserClients) + Cardinality(d.deployed) + 1
Deployed(d) ==
    [d EXCEPT !.deployed = @ \cup {NewClient(d)}, !.workers = @ \cup {NewClient(d)},
              !.default = Append(@, NewClient(d)), !.setting = Client(NewClient(d))]

\* set_dask_client, lines 514-515: the active client or None
ActiveOrNone(d, err) == Outcome(d, IF d.setting = Auto THEN NoClient ELSE d.setting, err)

\* set_dask_client(client, new_cluster=new_cluster, force_new=force_new)
set_dask_client(d, client, new_cluster, force_new) ==
    IF new_cluster # "None" /\ client # NoClient
    THEN IF global_dask_client([d EXCEPT !.setting = client]).result # NoClient /\ ~force_new
         THEN ActiveOrNone(global_dask_client([d EXCEPT !.setting = client]).d, "")
         ELSE IF new_cluster \in {"cuda", "cpu"}
         THEN ActiveOrNone(Deployed(global_dask_client([d EXCEPT !.setting = client]).d), "")
         ELSE Outcome(global_dask_client([d EXCEPT !.setting = client]).d, NoClient, "ValueError")
    ELSE ActiveOrNone([d EXCEPT !.setting = client], "")

\* Serial._activate
SerialActivated(d) ==
    Outcome([global_dask_client(d).d EXCEPT !.serial._active = TRUE], NoClient,
            IF global_dask_client(d).result # NoClient THEN "RuntimeError" ELSE "")
SerialActivate(d) ==
    IF ~d.serial._active
    THEN SerialActivated([set_dask_client(d, NoClient, "None", FALSE).d EXCEPT !.setter = "Serial"])
    ELSE SerialActivated(d)

\* Serial.__init__
SerialInit(d) ==
    SerialActivate([global_dask_client(d).d EXCEPT
                       !.serial = [exists |-> TRUE,
                                   _initial_client |-> global_dask_client(d).result,
                                   _active |-> FALSE, before |-> d.setting]])

\* Serial.deactivate
SerialDeactivated(d) ==
    Outcome(global_dask_client(d).d, NoClient,
            IF d.serial._initial_client # NoClient /\ global_dask_client(d).result = NoClient
            THEN "RuntimeError" ELSE "")
SerialDeactivate(d) ==
    SerialDeactivated([set_dask_client(d, d.serial._initial_client, "None", FALSE).d
                          EXCEPT !.serial._active = FALSE, !.setter = "Serial.deactivate"])

\* Distributed._activate
DistributedActivated(d, s) ==
    IF s.err # "" THEN Outcome(s.d, NoClient, s.err)
    ELSE Outcome([s.d EXCEPT !.distributed._client = s.result,
                             !.distributed._active = TRUE,
                             !.distributed.generated = @ \cup (s.d.deployed \ d.deployed),
                             !.setter = "Distributed"],
                 s.result, IF s.result \in {Auto, NoClient} THEN "RuntimeError" ELSE "")
DistributedActivate(d) ==
    IF ~d.distributed._active
    THEN DistributedActivated(d, set_dask_client(d, d.distributed._client,
                                                 d.distributed.cluster_type,
                                                 d.distributed.force_new))
    ELSE Outcome(d, d.distributed._client,
                 IF d.distributed._client \in {Auto, NoClient} THEN "RuntimeError" ELSE "")

\* Distributed.__init__, lines 313-321
DistributedFields(d, initial, client, force_new, set, before) ==
    [set.d EXCEPT !.distributed =
        [exists |-> TRUE, _initial_client |-> initial, _client |-> client,
         cluster_type |-> "cpu",
         _allow_shutdown |-> global_dask_client(set.d).result = NoClient \/ force_new,
         _active |-> FALSE, force_new |-> force_new, before |-> before,
         supplied |-> IF client = Auto THEN NoClient ELSE client,
         detected |-> global_dask_client(set.d).result, generated |-> {}],
                 !.setting = global_dask_client(set.d).d.setting]

\* Distributed.__init__(client=client, force_new=force_new); client=None is
\* NoClient, which `client or "auto"` turns into "auto"
DistributedInit(d, client, force_new) ==
    DistributedActivate(
        DistributedFields(d, global_dask_client(d).result,
                          IF client = NoClient THEN Auto ELSE client, force_new,
                          set_dask_client(global_dask_client(d).d,
                                          IF client = NoClient THEN Auto ELSE client,
                                          "None", FALSE),
                          d.setting))

\* client.close()
Closed(d, c) ==
    [d EXCEPT !.closed = @ \cup {c}, !.workers = @ \ {c},
              !.default = SelectSeq(@, LAMBDA x : x # c)]

\* Distributed._deactivate
DistributedDeactivated(d) ==
    Outcome([set_dask_client(d, d.distributed._initial_client, "None", FALSE).d
                EXCEPT !.distributed._client =
                           set_dask_client(d, d.distributed._initial_client, "None", FALSE).result,
                       !.distributed._active = FALSE,
                       !.setter = "Distributed.deactivate"],
            NoClient, "")

\* Distributed.deactivate; None.close() is an AttributeError
DistributedDeactivate(d) ==
    IF d.distributed._allow_shutdown /\ d.distributed._active
    THEN IF d.distributed._client.kind # "client" THEN Outcome(d, NoClient, "AttributeError")
         ELSE DistributedDeactivated(Closed(d, d.distributed._client.id))
    ELSE DistributedDeactivated(d)

\* ------------------------------------------------------ shapes
\* merlin/dtypes/shape.py.  A size is an int or None; an object is a
\* Dimension, a Shape (known says dims is not None) or no object at all.
NoSize == [kind |-> "None", v |-> 0]
Size(n) == [kind |-> "int", v |-> n]

\* bool(value): None and 0 are false
Truthy(value) == value.kind = "int" /\ value.v # 0

NoObject == [cls |-> "none", min |-> NoSize, max |-> NoSize, known |-> FALSE, dims |-> <<>>]
Constructed(obj) == [err |-> "", obj |-> obj]
ValueError == [err |-> "ValueError", obj |-> NoObject]
NotBuilt == [err |-> "not built", obj |-> NoObject]

\* Dimension(min, max): the dataclass fields and __post_init__
Dimension(min, max) ==
    IF min = NoSize THEN ValueError
    ELSE IF min.v < 0 THEN ValueError
    ELSE IF Truthy(max) /\ max.v < 0 THEN ValueError
    ELSE IF Truthy(max) /\ max.v < min.v THEN ValueError
    ELSE Constructed([NoObject EXCEPT !.cls = "Dimension", !.min = min, !.max = max])

\* An element of the tuple given to Shape: a Dimension, a tuple of length 2,
\* an int, None, or something else
Item(kind, min, max) == [kind |-> kind, min |-> min, max |-> max]

\* Shape.__post_init__, lines 78-90: the Dimension an element stands for
NewDim(dim) ==
    CASE dim.kind = "Dimension" ->
             Constructed([NoObject EXCEPT !.cls = "Dimension", !.min = dim.min, !.max = dim.max])
      [] dim.kind = "tuple" -> Dimension(dim.min, dim.max)
      [] dim.kind = "int" -> Dimension(dim.min, dim.min)
      [] dim.kind = "None" -> Dimension(Size(0), NoSize)
      [] OTHER -> ValueError

\* Shape.__post_init__, lines 76-93: the loop over self.dims from element i on
RECURSIVE NewDims(_, _, _)
NewDims(dims, i, new_dims) ==
    IF i > Len(dims)
    THEN Constructed([NoObject EXCEPT !.cls = "Shape", !.known = TRUE, !.dims = new_dims])
    ELSE IF NewDim(dims[i]).err # "" THEN ValueError
    ELSE NewDims(dims, i + 1, Append(new_dims, NewDim(dims[i]).obj))

\* The argument of Shape: None, a tuple of elements, or a Shape built from
\* None or from a tuple of elements
NoDims == [kind |-> "None", items |-> <<>>]
Dims(items) == [kind |-> "tuple", items |-> items]
OfShape(dims) == [dims EXCEPT !.kind = IF @ = "None" THEN "Shape(None)" ELSE "Shape"]

\* The Dimension objects of a Shape as the elements of a tuple
AsItems(new_dims) ==
    [i \in 1..Len(new_dims) |-> Item("Dimension", new_dims[i].min, new_dims[i].max)]

\* Shape(dims): the dataclass field and __post_init__
Shape(dims) ==
    CASE dims.kind \in {"None", "Shape(None)"} -> Constructed([NoObject EXCEPT !.cls = "Shape"])
      [] dims.kind = "tuple" -> NewDims(dims.items, 1, <<>>)
      [] OTHER ->
            IF NewDims(dims.items, 1, <<>>).err # "" THEN ValueError
            ELSE NewDims(AsItems(NewDims(dims.items, 1, <<>>).obj.dims), 1, <<>>)

\* Shape.__eq__ without the wildcard of lines 105-106
ShapeEqStrict(self, other) ==
    IF other.cls # "Shape" THEN FALSE
    ELSE self.known = other.known /\ self.dims = other.dims

\* Shape.__eq__ whose wildcard looks at self only
ShapeEqOneSided(self, other) ==
    IF other.cls # "Shape" THEN FALSE
    ELSE IF ~self.known THEN TRUE
    ELSE other.known /\ self.dims = other.dims

\* Shape.__eq__(self, other)
__eq__(self, other) ==
    IF other.cls # "Shape" THEN FALSE
    ELSE IF ~self.known \/ ~other.known THEN TRUE
    ELSE self.dims = other.dims

\* left == right: the __eq__ of the left operand, the reflected __eq__ of
\* the right operand when the left one is no Shape, and for two Dimensions
\* the comparison of the fields that the dataclass generates
Equals(left, right) ==
    IF left.cls = "Shape" THEN __eq__(left, right)
    ELSE IF right.cls = "Shape" THEN __eq__(right, left)
    ELSE left = right

\* The arguments of the constructors, the objects built from them (object 0
\* is the Dimension, objects 1 to 3 are the Shapes) and the last comparison
NoComparison == [left |-> 0, right |-> 0, eq |-> FALSE, ne |-> FALSE, done |-> FALSE]
Arguments(min, max, dims) ==
    [min |-> min, max |-> max, dims |-> dims, dimension |-> NotBuilt,
     objects |-> <<NotBuilt, NotBuilt, NotBuilt>>, compared |-> NoComparison]
NoShapes == Arguments(Size(0), NoSize, <<NoDims, NoDims, NoDims>>)

\* The graph of configuration c before any executor call
ExecutorInit(c) ==
        /\ parents_with_dependencies =
              [n \in Nodes |-> CASE n = 1 -> <<>> [] n = 2 -> c.p2 [] n = 3 -> c.p3]
        /\ input_schema = [n \in Nodes |-> IF n = 3 THEN c.i3 ELSE <<"a">>]
        /\ output_schema =
              [n \in Nodes |-> Declared(CASE n = 1 -> c.u1.out [] n = 2 -> c.u2.out [] n = 3 -> c.o3)]
        /\ dependency_columns = [n \in Nodes |-> IF n = 3 THEN c.d3 ELSE {}]
        /\ op = [n \in Nodes |-> CASE n = 1 -> c.u1.f [] n = 2 -> c.u2.f [] n = 3 -> c.f3]
        /\ hashOrder = c.h
        /\ graph_arg = c.g
        /\ additional_arg = c.ac
        /\ worker_cache = "stale"
        /\ last = Idle
        /\ parents = [n \in Nodes |-> CASE n = 1 -> <<>> [] n = 2 -> c.p2 [] n = 3 -> c.par3]
        /\ stat = [n \in Nodes |-> CASE n = 1 -> NoStat [] n = 2 -> c.s2 [] n = 3 -> c.s3]
        /\ fit_nodes = c.fn
        /\ fitted = {}
        /\ fit = FitIdle

Init ==
    /\ \E c \in Configs : ExecutorInit(c)
    /\ bo = NoOperator
    /\ dask = NoDask
    /\ shapes = NoShapes

\* ------------------------------------------------------------------ actions
\* LocalExecutor().transform(partition p, graph, additional_columns=..., capture_dtypes=...)
LocalReturns(p, capture_dtypes, x) ==
    /\ output_schema' = x.sch
    /\ last' = [Idle EXCEPT !.fn = "LocalExecutor.transform", !.partition = p,
                            !.capture_dtypes = capture_dtypes, !.before = output_schema,
                            !.err = x.err, !.tbl = x.tbl, !.log = x.log]

LocalTransformCall(p, capture_dtypes) ==
    /\ last.fn = "idle"
    /\ fit.pc = "idle"
    /\ LocalReturns(p, capture_dtypes,
                    LocalTransform(X(Ok, None, output_schema, <<>>), Partition(p), graph_arg,
                                   additional_arg, capture_dtypes))
    /\ UNCHANGED <<utilVars, graphVars, callVars, fitVars, worker_cache>>

\* DaskExecutor().transform(ddf, graph, additional_columns=..., capture_dtypes=...)
DaskTransformCall(capture_dtypes, client) ==
    /\ last.fn = "idle"
    /\ fit.pc = "idle"
    /\ last' = DaskTransform(output_schema, graph_arg, additional_arg, capture_dtypes, client)
    /\ worker_cache' = IF last'.log # <<>> THEN "clean" ELSE worker_cache
    /\ UNCHANGED <<utilVars, graphVars, callVars, fitVars, output_schema>>

\* A worker runs the mapped function on one partition:
\* self._executor.transform(partition, nodes, additional_columns=..., capture_dtypes=...)
PartitionReturns(p, x) ==
    /\ output_schema' = x.sch
    /\ last' = [last EXCEPT !.pending = @ \ {p},
                            !.parts[p] = [done |-> TRUE, err |-> x.err, tbl |-> x.tbl,
                                          log |-> x.log]]

MapPartition(p) ==
    /\ last.fn = "DaskExecutor.transform"
    /\ p \in last.pending
    /\ PartitionReturns(p, LocalTransform(X(Ok, None, output_schema, <<>>), Partition(p),
                                          GraphArg("list", last.nodes), additional_arg,
                                          last.capture_dtypes))
    /\ UNCHANGED <<utilVars, graphVars, callVars, fitVars, worker_cache>>

\* The caller is done with the result of the call
Return ==
    /\ last.fn # "idle"
    /\ last.pending = {}
    /\ last' = Idle
    /\ UNCHANGED <<utilVars, graphVars, callVars, fitVars, output_schema, worker_cache>>

\* DaskExecutor().fit(ddf, nodes) is called; client says whether
\* global_dask_client() finds an active client
FitCall(client) ==
    /\ last.fn = "idle"
    /\ fit.pc = "idle"
    /\ fit' = [FitIdle EXCEPT !.pc = IF fit_nodes = <<>> THEN "computing" ELSE "fitting",
                              !.client = client, !.before = output_schema]
    /\ UNCHANGED <<utilVars, graphVars, callVars, output_schema, worker_cache, last, fitted>>

\* DaskExecutor.fit, one turn of `for node in nodes`: the upstream nodes are
\* transformed lazily and node.op.fit builds the delayed statistic
FitNode ==
    /\ fit.pc = "fitting"
    /\ fit' = FitNodeStep(fit, fit_nodes[Len(fit.stats) + 1], Len(fit.stats) + 1,
                          AddlFitColumns(output_schema, fit_nodes[Len(fit.stats) + 1]),
                          DaskTransform(output_schema,
                                        GraphArg("list", parents_with_dependencies[
                                                             fit_nodes[Len(fit.stats) + 1]]),
                                        AddlFitColumns(output_schema,
                                                       fit_nodes[Len(fit.stats) + 1]),
                                        TRUE, fit.client))
    /\ worker_cache' = "clean"
    /\ UNCHANGED <<utilVars, graphVars, callVars, output_schema, last, fitted>>

\* A scheduled statistic is computed: by any worker when a client is active, in
\* list order by the synchronous scheduler otherwise, which raises at once
ComputeReturns(j, c) ==
    /\ output_schema' = c.sch
    /\ fit' = [fit EXCEPT !.computed[j] = Computed(fit.stats[j], c),
                          !.order = Append(@, j),
                          !.events = Append(@, Event("computed", fit.stats[j].node, j, <<>>, None)),
                          !.pc = IF ~fit.client /\ c.err # Ok THEN "raised" ELSE @,
                          !.err = IF ~fit.client /\ c.err # Ok THEN c.err ELSE @]

ComputeStat(j) ==
    /\ fit.pc = "computing"
    /\ j \in 1..Len(fit.stats)
    /\ ~fit.computed[j].done
    /\ fit.client \/ \A i \in 1..(j - 1) : fit.computed[i].done
    /\ ComputeReturns(j, ComputeParts(output_schema, fit.stats[j], 1, <<>>))
    /\ UNCHANGED <<utilVars, graphVars, callVars, worker_cache, last, fitted>>

\* DaskExecutor.fit: results = ... once every computation has returned
Gather ==
    /\ fit.pc = "computing"
    /\ ResultsReady(fit)
    /\ fit' = IF FirstError(fit.computed, 1) # Ok
              THEN [fit EXCEPT !.pc = "raised", !.err = FirstError(fit.computed, 1)]
              ELSE [fit EXCEPT !.pc = IF fit_nodes = <<>> THEN "returned" ELSE "finalizing",
                               !.results = Gathered(fit.computed, fit.order, fit.client)]
    /\ UNCHANGED <<utilVars, graphVars, callVars, output_schema, worker_cache, last, fitted>>

\* DaskExecutor.fit, one turn of `for computed_stats, node in zip(results, nodes)`
FinalizeStep(i, pair) ==
    IF stat[pair.node].fit_finalize = "raise"
    THEN /\ fit' = [fit EXCEPT !.pc = "raised", !.err = Err("FinalizeError", pair.node, ""),
                               !.events = Append(@, Event("fit_finalize", pair.node, i, <<>>, None))]
         /\ fitted' = fitted
    ELSE /\ fit' = [fit EXCEPT !.pc = IF i = Len(Zip(fit.results, fit_nodes))
                                      THEN "returned" ELSE "finalizing",
                               !.finalized = Append(@, pair),
                               !.events = Append(@, Event("fit_finalize", pair.node, i, <<>>, None))]
         /\ fitted' = fitted \cup {pair.node}

Finalize ==
    /\ fit.pc = "finalizing"
    /\ Len(fit.finalized) < Len(Zip(fit.results, fit_nodes))
    /\ FinalizeStep(Len(fit.finalized) + 1, Zip(fit.results, fit_nodes)[Len(fit.finalized) + 1])
    /\ UNCHANGED <<utilVars, graphVars, callVars, output_schema, worker_cache, last>>

\* DaskExecutor.fit has returned or raised, and the caller goes on
FitReturn ==
    /\ fit.pc \in {"returned", "raised"}
    /\ fit' = FitIdle
    /\ UNCHANGED <<utilVars, graphVars, callVars, output_schema, worker_cache, last, fitted>>

Next ==
    \/ \E p \in Partitions, capture_dtypes \in BOOLEAN : LocalTransformCall(p, capture_dtypes)
    \/ \E capture_dtypes \in BOOLEAN, client \in BOOLEAN : DaskTransformCall(capture_dtypes, client)
    \/ \E p \in Partitions : MapPartition(p)
    \/ Return
    \/ \E client \in BOOLEAN : FitCall(client)
    \/ FitNode
    \/ \E j \in 1..Len(fit_nodes) : ComputeStat(j)
    \/ Gather
    \/ Finalize
    \/ FitReturn

Spec == Init /\ [][Next]_vars

\* The graph the executors are left with while other modules are exercised
BaseGraph ==
    Config(<<>>, <<1>>, BaseUpstream, BaseUpstream, <<"x", "b">>, {}, <<"x">>, BaseOp,
           <<"a", "b", "x">>, GraphArg("Node", <<3>>), <<>>)

\* ------------------------------------------- schema propagation of a node
\* The number of schema-method calls made on a node
MaxCalls == 3

\* A column descriptor of an upstream schema
Described(name, dtype, is_list, tags, properties) ==
    [name |-> name, dtype |-> dtype, is_list |-> is_list, is_ragged |-> is_list,
     tags |-> tags, properties |-> properties]

ParentsSchemas ==
    {<<Described("a", "int64", FALSE, {"t"}, {<<"k", "old">>}),
       Described("b", "float64", TRUE, {}, {})>>,
     <<Described("b", "float64", TRUE, {}, {<<"k", "old">>, <<"m", "old">>}),
       Described("a", "int64", FALSE, {"t"}, {})>>,
     <<Described("a", "int64", FALSE, {}, {})>>}
DepsSchemas ==
    {<<>>,
     <<Described("a", "float64", FALSE, {"u"}, {}), Described("c", "int64", FALSE, {"t"}, {})>>}
RootSchemas == {<<>>, <<Described("a", "int64", FALSE, {}, {})>>}
\* the output schema of an earlier pass whose dtypes were captured from data
PrevOutputSchemas ==
    {<<>>, <<Described("a", "int32", FALSE, {}, {})>>,
     [i \in 1..7 |-> Described(<<"a", "b", "c", "a2", "b2", "c2", "y">>[i], "int32", FALSE, {}, {})]}
Selectors ==
    {ColumnSelector(names, tags) :
        names \in {<<>>, <<"a">>, <<"a", "b">>, <<"b", "a">>, <<"c">>, <<"a", "c">>, <<"d", "a", "c">>},
        tags \in {{}, {"t"}}}
Operators ==
    {BaseOperator}
    \cup {Operator("Rename", mapping, output_dtype, {"u"}, {<<"k", "new">>}, dynamic_dtypes) :
             mapping \in {"identity", "rename", "fanin"}, output_dtype \in {NoDtype, "float32"},
             dynamic_dtypes \in BOOLEAN}

OperatorInit ==
    /\ ExecutorInit(BaseGraph)
    /\ dask = NoDask
    /\ shapes = NoShapes
    /\ \E operator \in Operators, selector \in Selectors, parents_schema \in ParentsSchemas,
          deps_schema \in DepsSchemas, prev_output_schema \in PrevOutputSchemas :
           bo = Node(operator, selector, <<>>, parents_schema, deps_schema, prev_output_schema)

\* The schema of the columns that reach the node
InputSchema == SchemaAdd(bo.parents_schema, bo.deps_schema)

Called(method, selector, prev_output_schema, result) ==
    [method |-> method, selector |-> selector, prev |-> prev_output_schema, result |-> result]

\* node.op.compute_selector(input_schema, selector)
ComputeSelectorCall ==
    /\ bo.calls < MaxCalls
    /\ bo' = [bo EXCEPT !.calls = @ + 1,
                        !.call = Called("compute_selector", bo.selector, <<>>,
                                        compute_selector(bo.operator, InputSchema, bo.selector))]
    /\ UNCHANGED <<executorVars, dask, shapes>>

\* node.op.compute_input_schema(root_schema, parents_schema, deps_schema, selector)
ComputeInputSchemaCall(root_schema) ==
    /\ bo.calls < MaxCalls
    /\ bo' = [bo EXCEPT !.calls = @ + 1,
                        !.root_schema = root_schema,
                        !.call = Called("compute_input_schema", bo.selector, <<>>,
                                        compute_input_schema(bo.operator, root_schema,
                                                             bo.parents_schema, bo.deps_schema,
                                                             bo.selector))]
    /\ UNCHANGED <<executorVars, dask, shapes>>

\* The previous output schema of the next pass: that of the pass before it
PrevOutputSchema ==
    IF bo.outputs = <<>> THEN bo.prev ELSE bo.outputs[Len(bo.outputs)]

\* node.op.compute_output_schema(input_schema, selector, prev_output_schema)
ComputeOutputSchemaReturns(result) ==
    bo' = [bo EXCEPT !.calls = @ + 1,
                     !.selector = SelectorAfterOutputSchema(InputSchema, bo.selector),
                     !.call = Called("compute_output_schema", bo.selector, PrevOutputSchema,
                                     result),
                     !.outputs = IF result.err = NoError THEN Append(@, result.value) ELSE @]

ComputeOutputSchemaCall ==
    /\ bo.calls < MaxCalls
    /\ ComputeOutputSchemaReturns(compute_output_schema(bo.operator, InputSchema, bo.selector,
                                                        PrevOutputSchema))
    /\ UNCHANGED <<executorVars, dask, shapes>>

OperatorNext ==
    \/ ComputeSelectorCall
    \/ \E root_schema \in RootSchemas : ComputeInputSchemaCall(root_schema)
    \/ ComputeOutputSchemaCall

OperatorSpec == OperatorInit /\ [][OperatorNext]_vars

\* ------------------------------------------- the client setting in use
\* The number of calls made to utils.py and to Dask
MaxUtilCalls == 4

\* The Python context at the start: no Dask client, or client 1, which is or
\* is not the default client and has or has not workers; and the setting
Contexts ==
    {Context(setting, <<>>, {}) : setting \in {Auto, NoClient}}
    \cup {Context(setting, default, workers) :
             setting \in {Auto, NoClient, Client(1)}, default \in {<<>>, <<1>>},
             workers \in {{}, {1}}}

ClientInit ==
    /\ ExecutorInit(BaseGraph)
    /\ bo = NoOperator
    /\ shapes = NoShapes
    /\ dask \in Contexts

\* The clients there are
Clients(d) == {Client(c) : c \in ToSet(d.default) \cup d.workers \cup d.closed \cup d.deployed}
                  \cup ({d.setting} \ {Auto, NoClient})

UtilCall(fn, client, new_cluster, out) ==
    [fn |-> fn, client |-> client, new_cluster |-> new_cluster, result |-> out.result,
     err |-> out.err, deployed |-> out.d.deployed \ dask.deployed,
     closed |-> out.d.closed \ dask.closed, was_active |-> FALSE]

UtilReturns(fn, client, new_cluster, out) ==
    dask' = [out.d EXCEPT !.calls = dask.calls + 1,
                          !.call = UtilCall(fn, client, new_cluster, out)]

\* set_dask_client(client, new_cluster=..., force_new=...) called by the user;
\* "tpu" is a new_cluster that is neither "cuda" nor "cpu"
SetDaskClientCall(client, new_cluster, force_new) ==
    /\ dask.calls < MaxUtilCalls
    /\ UtilReturns("set_dask_client", client, new_cluster,
                   [set_dask_client(dask, client, new_cluster, force_new)
                       EXCEPT !.d.setter = IF client = NoClient THEN "set_dask_client(None)"
                                           ELSE "set_dask_client"])
    /\ UNCHANGED <<executorVars, bo, shapes>>

\* global_dask_client() called by the user
GlobalDaskClientCall ==
    /\ dask.calls < MaxUtilCalls
    /\ UtilReturns("global_dask_client", Auto, "None", global_dask_client(dask))
    /\ UNCHANGED <<executorVars, bo, shapes>>

\* The user creates Dask client 2, the default client from now on
UserCreatesClient ==
    /\ dask.calls < MaxUtilCalls
    /\ Client(2) \notin Clients(dask)
    /\ dask' = [dask EXCEPT !.calls = @ + 1, !.workers = @ \cup {2}, !.default = Append(@, 2),
                            !.call = [NoUtilCall EXCEPT !.fn = "Client"]]
    /\ UNCHANGED <<executorVars, bo, shapes>>

\* Serial()
SerialInitCall ==
    /\ dask.calls < MaxUtilCalls
    /\ ~dask.serial.exists
    /\ UtilReturns("Serial", Auto, "None", SerialInit(dask))
    /\ UNCHANGED <<executorVars, bo, shapes>>

\* Serial.__enter__
SerialEnterCall ==
    /\ dask.calls < MaxUtilCalls
    /\ dask.serial.exists
    /\ UtilReturns("Serial.__enter__", Auto, "None", SerialActivate(dask))
    /\ UNCHANGED <<executorVars, bo, shapes>>

\* Serial.deactivate(), Serial.__exit__
SerialDeactivateCall ==
    /\ dask.calls < MaxUtilCalls
    /\ dask.serial.exists
    /\ UtilReturns("Serial.deactivate", Auto, "None", SerialDeactivate(dask))
    /\ UNCHANGED <<executorVars, bo, shapes>>

\* Distributed(client=client, force_new=force_new)
DistributedInitCall(client, force_new) ==
    /\ dask.calls < MaxUtilCalls
    /\ ~dask.distributed.exists
    /\ UtilReturns("Distributed", client, "cpu", DistributedInit(dask, client, force_new))
    /\ UNCHANGED <<executorVars, bo, shapes>>

\* Distributed.__enter__
DistributedEnterCall ==
    /\ dask.calls < MaxUtilCalls
    /\ dask.distributed.exists
    /\ UtilReturns("Distributed.__enter__", Auto, "cpu", DistributedActivate(dask))
    /\ UNCHANGED <<executorVars, bo, shapes>>

\* Distributed.deactivate(), Distributed.__exit__, Distributed.__del__
DistributedDeactivateReturns(out) ==
    dask' = [out.d EXCEPT !.calls = dask.calls + 1,
                          !.call = [UtilCall("Distributed.deactivate", Auto, "None", out)
                                       EXCEPT !.was_active = dask.distributed._active]]

DistributedDeactivateCall ==
    /\ dask.calls < MaxUtilCalls
    /\ dask.distributed.exists
    /\ DistributedDeactivateReturns(DistributedDeactivate(dask))
    /\ UNCHANGED <<executorVars, bo, shapes>>

ClientNext ==
    \/ \E client \in {Auto, NoClient} \cup Clients(dask), new_cluster \in {"None", "cpu", "tpu"},
          force_new \in BOOLEAN : SetDaskClientCall(client, new_cluster, force_new)
    \/ GlobalDaskClientCall
    \/ UserCreatesClient
    \/ SerialInitCall
    \/ SerialEnterCall
    \/ SerialDeactivateCall
    \/ \E client \in {NoClient} \cup Clients(dask), force_new \in BOOLEAN :
           DistributedInitCall(client, force_new)
    \/ DistributedEnterCall
    \/ DistributedDeactivateCall

ClientSpec == ClientInit /\ [][ClientNext]_vars

\* ------------------------------------------------ merlin.dtypes.shape calls
MaxDim == 2

\* The sizes given to Dimension
Sizes == {NoSize} \cup {Size(n) : n \in -1..MaxDim}

\* The elements given to Shape in a tuple; "other" is an element of a type
\* that Shape does not accept
Items ==
    {Item("int", Size(n), Size(n)) : n \in -1..MaxDim}
    \cup {Item("None", NoSize, NoSize), Item("tuple", Size(1), Size(0)),
          Item("tuple", Size(0), NoSize), Item("Dimension", Size(1), Size(MaxDim)),
          Item("other", NoSize, NoSize)}

\* The arguments given to Shape
ShapeArgs ==
    {NoDims, Dims(<<>>), OfShape(NoDims), OfShape(Dims(<<Item("int", Size(1), Size(1))>>))}
    \cup {Dims(<<dim>>) : dim \in Items}
    \cup {Dims(<<Item("int", Size(1), Size(1)), dim>>) :
             dim \in {Item("int", Size(1), Size(1)), Item("None", NoSize, NoSize)}}

\* Either the arguments of Dimension vary, or those of the three Shapes
ShapeInit ==
    /\ ExecutorInit(BaseGraph)
    /\ bo = NoOperator
    /\ dask = NoDask
    /\ \/ \E min \in Sizes, max \in Sizes :
             shapes = Arguments(min, max, <<NoDims, Dims(<<Item("int", Size(1), Size(1))>>),
                                            Dims(<<Item("int", Size(2), Size(2))>>)>>)
       \/ \E a \in ShapeArgs, b \in ShapeArgs, u \in ShapeArgs :
             shapes = Arguments(Size(0), NoSize, <<a, b, u>>)

\* Dimension(min, max)
DimensionCall ==
    /\ shapes.dimension = NotBuilt
    /\ shapes' = [shapes EXCEPT !.dimension = Dimension(shapes.min, shapes.max)]
    /\ UNCHANGED <<executorVars, bo, dask>>

\* Shape(dims) for the i-th argument
ShapeCall(i) ==
    /\ shapes.dimension # NotBuilt
    /\ shapes.objects[i] = NotBuilt
    /\ \A j \in 1..(i - 1) : shapes.objects[j] # NotBuilt
    /\ shapes' = [shapes EXCEPT !.objects[i] = Shape(shapes.dims[i])]
    /\ UNCHANGED <<executorVars, bo, dask>>

\* Object i: the Dimension (0) or a Shape
Object(i) == IF i = 0 THEN shapes.dimension ELSE shapes.objects[i]

\* left == right and left != right (Python negates __eq__) for two objects
\* that were built
EqCall(left, right) ==
    /\ \A i \in 0..3 : Object(i) # NotBuilt
    /\ Object(left).err = "" /\ Object(right).err = ""
    /\ shapes' = [shapes EXCEPT !.compared =
                     [left |-> left, right |-> right,
                      eq |-> Equals(Object(left).obj, Object(right).obj),
                      ne |-> ~Equals(Object(left).obj, Object(right).obj),
                      done |-> TRUE]]
    /\ UNCHANGED <<executorVars, bo, dask>>

ShapeNext ==
    \/ DimensionCall
    \/ \E i \in 1..3 : ShapeCall(i)
    \/ \E left \in 0..3, right \in 0..3 : EqCall(left, right)

ShapeSpec == ShapeInit /\ [][ShapeNext]_vars

\* ------------------------------------------------------------------ claims
\* The runs of LocalExecutor.transform recorded in the state: the direct call,
\* or the runs of the mapped function on the partitions done so far
Runs ==
    IF last.fn = "LocalExecutor.transform"
    THEN {[partition |-> last.partition, capture_dtypes |-> last.capture_dtypes,
           nodes |-> graph_arg.nodes, err |-> last.err, tbl |-> last.tbl, log |-> last.log]}
    ELSE {[partition |-> p, capture_dtypes |-> last.capture_dtypes, nodes |-> last.nodes,
           err |-> last.parts[p].err, tbl |-> last.parts[p].tbl, log |-> last.parts[p].log] :
              p \in {q \in Partitions : last.nodes # <<>> /\ last.parts[q].done}}

\* The positions of a log where _build_input_data returns the input of a node
InputEvents(log) == {k \in 1..Len(log) : log[k].ev = "input"}

\* The position where the call of _build_input_data that returns at k began
BuildStart(log, k) ==
    CHOOSE s \in 1..k :
        /\ log[s].ev = "build" /\ log[s].node = log[k].node
        /\ \A t \in (s + 1)..k : ~(log[t].ev = "build" /\ log[t].node = log[k].node)

\* The tables the parents returned to the call of _build_input_data that
\* returns at k, in parents_with_dependencies order
ParentEvents(log, k) ==
    SelectSeq(SubSeq(log, BuildStart(log, k), k),
              LAMBDA e : e.ev = "parent" /\ e.node = log[k].node)

\* The names the call of _build_input_data that returns at k read from the root table
RootRead(log, k) ==
    IF log[k - 1].ev = "read" /\ log[k - 1].node = log[k].node THEN log[k - 1].cols ELSE <<>>

\* The column names the tables of the parent events hold
Produced(events) == UNION {ToSet(ColumnNames(events[i].tbl)) : i \in 1..Len(events)}

\* The columns of a table that are called c
Named(t, c) == SelectCols(t.cols, <<c>>)

\* C1: when two parents of a node both produce a column of one name with
\* different values, the input merged for the node holds the column of the
\* earlier parent.
C1_FirstWriterWins ==
    \A r \in Runs : \A k \in InputEvents(r.log) :
        \A i, j \in 1..Len(ParentEvents(r.log, k)) : \A c \in Cols :
            (/\ i < j
             /\ Named(ParentEvents(r.log, k)[i].tbl, c) # <<>>
             /\ Named(ParentEvents(r.log, k)[j].tbl, c) # <<>>
             /\ Named(ParentEvents(r.log, k)[i].tbl, c) # Named(ParentEvents(r.log, k)[j].tbl, c)
             /\ ParentEvents(r.log, k)[j].tbl.rows > 0)
            => Named(r.log[k].tbl, c) = Named(ParentEvents(r.log, k)[i].tbl, c)

\* C2: the input merged for a node with parents holds every output column of
\* every parent exactly once, and that column is one a parent produced (also
\* when the accumulator has zero rows).
C2_ParentColumnsKept ==
    \A r \in Runs : \A k \in InputEvents(r.log) :
        \A i \in 1..Len(ParentEvents(r.log, k)) :
            \A c \in ToSet(ColumnNames(ParentEvents(r.log, k)[i].tbl)) :
                /\ Len(Named(r.log[k].tbl, c)) = 1
                /\ \E j \in 1..Len(ParentEvents(r.log, k)) :
                       Named(r.log[k].tbl, c) = Named(ParentEvents(r.log, k)[j].tbl, c)

\* C3: for a node with parents, the columns read from the root table are the
\* input-schema columns and dependency columns that no parent produced, a
\* column some parent produced is never read from the root table, and the
\* columns read are the last columns of the input.
C3_RootReadOnlyUnproduced ==
    \A r \in Runs : \A k \in InputEvents(r.log) :
        parents_with_dependencies[r.log[k].node] # <<>> =>
            /\ ToSet(RootRead(r.log, k)) =
                  (ToSet(input_schema[r.log[k].node]) \cup dependency_columns[r.log[k].node])
                      \ Produced(ParentEvents(r.log, k))
            /\ ToSet(RootRead(r.log, k)) \cap Produced(ParentEvents(r.log, k)) = {}
            /\ Len(ColumnNames(r.log[k].tbl)) >= Len(RootRead(r.log, k))
            /\ SubSeq(ColumnNames(r.log[k].tbl),
                      Len(ColumnNames(r.log[k].tbl)) - Len(RootRead(r.log, k)) + 1,
                      Len(ColumnNames(r.log[k].tbl))) = RootRead(r.log, k)

\* C4: the input built for a node without parents is the root table's columns
\* named by the node's input schema, in schema order, followed by the root
\* table's columns named by the node's dependency columns; the call reads the
\* root table and invokes no operator.
C4_InputNodeReadsRoot ==
    \A r \in Runs : \A k \in InputEvents(r.log) :
        parents_with_dependencies[r.log[k].node] = <<>> =>
            /\ BuildStart(r.log, k) = k - 2
            /\ r.log[k - 1].ev = "read" /\ r.log[k - 1].node = r.log[k].node
            /\ r.log[k - 1].cols = ColumnNames(r.log[k].tbl)
            /\ Len(r.log[k].tbl.cols) =
                  Len(input_schema[r.log[k].node])
                      + Cardinality(dependency_columns[r.log[k].node])
            /\ SubSeq(ColumnNames(r.log[k].tbl), 1, Len(input_schema[r.log[k].node]))
                  = input_schema[r.log[k].node]
            /\ ToSet(SubSeq(ColumnNames(r.log[k].tbl),
                            Len(input_schema[r.log[k].node]) + 1, Len(r.log[k].tbl.cols)))
                  = dependency_columns[r.log[k].node]
            /\ r.log[k].tbl.rows = Partition(r.partition).rows
            /\ ToSet(r.log[k].tbl.cols) \subseteq ToSet(Partition(r.partition).cols)

\* An input node with two input-schema columns and a dependency column has
\* had its input built
C4_Witness ==
    \E r \in Runs : \E k \in InputEvents(r.log) :
        /\ parents_with_dependencies[r.log[k].node] = <<>>
        /\ Len(input_schema[r.log[k].node]) = 2
        /\ dependency_columns[r.log[k].node] # {}

\* C5: without additional_columns, the columns of the table transform returns
\* are, target node after target node in list order, the names the node's
\* output schema declares, in schema order.
C5_DeclaredColumnsInOrder ==
    \A r \in Runs :
        (r.err = Ok /\ additional_arg = <<>>) =>
            ColumnNames(r.tbl) = FlattenOutputColumns(output_schema, r.nodes)

\* A transform has returned for a target whose operator returned an
\* undeclared column and the declared columns in another order
C5_Witness ==
    \E r \in Runs :
        /\ r.err = Ok /\ additional_arg = <<>> /\ r.nodes = <<3>>
        /\ op[3].kind = "table" /\ op[3].cols = "permuted"
        /\ Len(output_schema[3]) = 2

\* C6: with additional_columns, every requested column name occurs at most
\* once in the table transform returns, also when a target node produced a
\* column of that name.
C6_NoNameTwice ==
    \A r \in Runs :
        r.err = Ok =>
            \A c \in ToSet(additional_arg) : Len(Named(r.tbl, c)) <= 1

\* The dtypes of the declared output columns of node n that differ between
\* the schema and the table t
Mismatched(n, t) ==
    {i \in 1..Len(output_schema[n]) :
        Named(t, output_schema[n][i].name)[1].dtype # output_schema[n][i].dtype}

\* The call of _transform_data whose operator returned at position k of the
\* log raised the dtype-mismatch TypeError
DtypeErrorAt(r, k) == k = Len(r.log) /\ r.err.kind = "TypeError:dtype"

\* C7: with capture_dtypes false, _transform_data raises the dtype-mismatch
\* TypeError (for this node and a mismatching column) exactly when the table
\* the operator returned has a row and a declared column whose dtype differs
\* from the schema's.
C7_DtypeMismatchIffRowsAndDiffers ==
    \A r \in Runs : \A k \in 1..Len(r.log) :
        (~r.capture_dtypes /\ r.log[k].ev = "returned" /\ ~r.log[k].tbl.none) =>
            /\ DtypeErrorAt(r, k) <=>
                  (r.log[k].tbl.rows > 0 /\ Mismatched(r.log[k].node, r.log[k].tbl) # {})
            /\ DtypeErrorAt(r, k) =>
                  /\ r.err.node = r.log[k].node
                  /\ \E i \in Mismatched(r.log[k].node, r.log[k].tbl) :
                         r.err.col = output_schema[r.log[k].node][i].name

\* An operator returned a dtype the schema does not declare: on the partition
\* without rows the validation let it pass, on a partition with rows it raised
C7_Witness ==
    /\ \E r \in Runs : \E k \in 1..Len(r.log) :
          /\ ~r.capture_dtypes /\ r.log[k].ev = "returned" /\ ~r.log[k].tbl.none
          /\ r.log[k].tbl.rows = 0 /\ Mismatched(r.log[k].node, r.log[k].tbl) # {}
          /\ r.err = Ok
    /\ \E r \in Runs : \E k \in 1..Len(r.log) :
          /\ ~r.capture_dtypes /\ r.log[k].ev = "returned" /\ r.log[k].tbl.rows > 0
          /\ DtypeErrorAt(r, k)

\* C8: with capture_dtypes true, once _transform_data has returned for a node
\* the dtype and the list flag of every declared output column are those of
\* the table the operator returned, the declared names and their order are
\* what they were, and no dtype-mismatch TypeError is raised.
C8_CaptureOverwritesDtypes ==
    \A r \in Runs :
        r.capture_dtypes =>
            /\ r.err.kind # "TypeError:dtype"
            /\ \A k \in 1..Len(r.log) :
                  r.log[k].ev = "transformed" =>
                      /\ [i \in 1..Len(r.log[k].cols) |-> r.log[k].cols[i].name]
                            = OutputColumnNames(last.before, r.log[k].node)
                      /\ \A i \in 1..Len(r.log[k].cols) :
                            /\ r.log[k].cols[i].dtype =
                                  Named(r.log[k].tbl, r.log[k].cols[i].name)[1].dtype
                            /\ r.log[k].cols[i].is_list =
                                  Named(r.log[k].tbl, r.log[k].cols[i].name)[1].is_list

\* A capturing transform has returned for a node whose operator returned list
\* columns of a dtype the schema did not declare
C8_Witness ==
    \E r \in Runs : \E k \in 1..Len(r.log) :
        /\ r.capture_dtypes /\ r.log[k].ev = "transformed" /\ r.log[k].node = 3
        /\ r.log[k].tbl.rows > 0
        /\ \E i \in 1..Len(output_schema[3]) :
              /\ last.before[3][i].dtype # output_schema[3][i].dtype
              /\ ~last.before[3][i].is_list /\ output_schema[3][i].is_list

\* C9: whenever an operator's transform returns None, the transform fails with
\* the RuntimeError that names the operator.
C9_NoneRaisesRuntimeError ==
    \A r \in Runs : \A k \in 1..Len(r.log) :
        (r.log[k].ev = "returned" /\ r.log[k].tbl.none) =>
            r.err = Err("RuntimeError", r.log[k].node, "")

\* A call of transform was rejected before any traversal: it raised the
\* TypeError on the graph argument, logged no event and the worker cache has
\* never been cleared
RejectedUpFront ==
    /\ last.err.kind = "TypeError:graph"
    /\ last.log = <<>>
    /\ last.pending = {}
    /\ \A p \in Partitions : ~last.parts[p].done
    /\ worker_cache = "stale"

C11_OperatorExceptionPropagates ==
    /\ \A r \in Runs : \A k \in 1..Len(r.log) :
          (r.log[k].ev = "op" /\ op[r.log[k].node].kind = "raise") =>
              /\ k = Len(r.log)
              /\ r.err = Err("OpError", r.log[k].node, "")
              /\ r.tbl = None
    /\ \A k \in 1..Len(fit.events) :
          (fit.events[k].ev = "fit" /\ stat[fit.events[k].node].fit = "raise") =>
              /\ k = Len(fit.events)
              /\ fit.pc = "raised"
              /\ fit.err = Err("FitError", fit.events[k].node, "")
              /\ fit.results = <<>> /\ fit.finalized = <<>>
    /\ (fit.pc = "raised" /\ fit.err.kind = "OpError") =>
          /\ op[fit.err.node].kind = "raise"
          /\ fit.results = <<>> /\ fit.finalized = <<>>

\* A transform has raised the exception of an upstream operator
C11_Witness ==
    \E r \in Runs : \E k \in 1..Len(r.log) :
        /\ r.log[k].ev = "op" /\ op[r.log[k].node].kind = "raise"
        /\ r.log[k].node # 3
        /\ r.err.kind = "OpError"

\* The positions of the events of one kind in the log of the fit call
FitEvents(ev) == {k \in 1..Len(fit.events) : fit.events[k].ev = ev}

\* C12: in DaskExecutor.fit no fit_finalize starts before the statistic of
\* every node of the list has been computed and has returned, with or without
\* a client.
C12_FitBarrier ==
    /\ \A k \in FitEvents("fit_finalize") : \A j \in 1..Len(fit_nodes) :
          \E m \in FitEvents("computed") : m < k /\ fit.events[m].arg = j
    /\ fit.pc \in {"finalizing", "returned"} =>
          /\ Len(fit.computed) = Len(fit_nodes)
          /\ \A j \in 1..Len(fit.computed) : fit.computed[j].done

\* With a client, the first fit_finalize of a fit over two nodes has been
\* called after the second statistic was computed before the first
C12_Witness ==
    /\ fit.client /\ Len(fit_nodes) = 2
    /\ fit.order = <<2, 1>>
    /\ fit.pc = "finalizing" /\ Len(fit.finalized) = 1

\* C13: when DaskExecutor.fit returns, fit_finalize has been called once per
\* entry of nodes, in list order, each with the computed result of that
\* entry's own fit.
C13_FinalizeOncePerNodeInOrder ==
    fit.pc = "returned" =>
        /\ Len(fit.finalized) = Len(fit_nodes)
        /\ \A i \in 1..Len(fit_nodes) :
              /\ fit.finalized[i].node = fit_nodes[i]
              /\ fit.finalized[i].computed_stats = fit.computed[i]
              /\ fit.computed[i].node = fit_nodes[i]
              /\ fit.stats[i].node = fit_nodes[i]
        /\ [i \in 1..Len(fit_nodes) |-> Event("fit_finalize", fit_nodes[i], i, <<>>, None)]
              = SelectSeq(fit.events, LAMBDA e : e.ev = "fit_finalize")

\* A fit over the nodes 3, 2 without a client has returned
C13_Witness ==
    /\ fit.pc = "returned" /\ ~fit.client
    /\ fit_nodes = <<3, 2>>

\* C14: whenever DaskExecutor.fit raises, no operator of nodes has been
\* finalized by the call.
C14_NoPartialFinalize ==
    fit.pc = "raised" => fit.finalized = <<>>

\* The event that clears the worker cache: on every worker with a client,
\* in-process without
Cleared(client) == Event("clear_worker_cache", 0, IF client THEN 1 ELSE 0, <<>>, None)

\* C15: a DaskExecutor.transform call that passes the argument check clears
\* the worker cache before the map step is dispatched, and DaskExecutor.fit
\* clears it before each node's operator fit is invoked.
C15_CacheClearedFirst ==
    /\ (last.fn = "DaskExecutor.transform" /\ last.err.kind # "TypeError:graph") =>
          /\ last.log = <<Cleared(last.client)>>
          /\ worker_cache = "clean"
    /\ \A k \in FitEvents("fit") :
          /\ k > 1
          /\ fit.events[k - 1] = Cleared(fit.client)
          /\ worker_cache = "clean"

\* A fit with a client has invoked the fit of two operators
C15_Witness ==
    /\ fit.client
    /\ Cardinality(FitEvents("fit")) = 2
    /\ Cardinality(FitEvents("clear_worker_cache")) = 2

\* The statistics computed one after the other in list order, from statistic j on
RECURSIVE SyncResults(_, _, _)
SyncResults(sch, stats, j) ==
    IF j > Len(stats) THEN <<>>
    ELSE <<Computed(stats[j], ComputeParts(sch, stats[j], 1, <<>>))>>
             \o SyncResults(ComputeParts(sch, stats[j], 1, <<>>).sch, stats, j + 1)

\* C16: with a client DaskExecutor.fit gathers the result list, and calls
\* fit_finalize on the nodes with the statistics, that the synchronous
\* in-process computation gives.
C16_ClientAsSynchronous ==
    fit.pc \in {"finalizing", "returned"} =>
        /\ fit.results = SyncResults(fit.before, fit.stats, 1)
        /\ fit.finalized =
              SubSeq(Zip(SyncResults(fit.before, fit.stats, 1), fit_nodes), 1, Len(fit.finalized))
        /\ fit.pc = "returned" => Len(fit.finalized) = Len(fit_nodes)

\* A fit with a client whose statistics were computed in the reverse order has
\* returned
C16_Witness ==
    /\ fit.pc = "returned" /\ fit.client
    /\ fit.order = <<2, 1>>

\* C17: the transform of a stateful operator is never run with capture_dtypes
\* false before the operator's fit_finalize has been called.
C17_TransformOnlyWhenFitted ==
    \A r \in Runs : \A k \in 1..Len(r.log) :
        (~r.capture_dtypes /\ r.log[k].ev = "op" /\ stat[r.log[k].node].kind = "stat")
            => r.log[k].node \in fitted

\* C18: the table handed to a node's fit is the transform of the node's
\* upstream nodes with capture_dtypes true and holds every input column of
\* the node.
C18_FitInputHoldsInputColumns ==
    \A j \in 1..Len(fit.computed) :
        (fit.computed[j].done /\ fit.computed[j].err = Ok) =>
            /\ fit.stats[j].upstream = parents_with_dependencies[fit.stats[j].node]
            /\ fit.stats[j].capture_dtypes
            /\ \A p \in 1..Len(fit.computed[j].tables) :
                  ToSet(input_schema[fit.stats[j].node])
                      \subseteq ToSet(ColumnNames(fit.computed[j].tables[p]))

\* C19: the node schemas after the map step of DaskExecutor.transform do not
\* depend on the order in which the partitions were processed: they are the
\* schemas that processing the partitions in index order gives.
C19_SchemasIndependentOfOrder ==
    (/\ last.fn = "DaskExecutor.transform" /\ last.nodes # <<>> /\ last.pending = {}
     /\ \A p \in Partitions : last.parts[p].err = Ok)
    => output_schema =
          ComputeParts(last.before,
                       [upstream |-> last.nodes, additional_columns |-> additional_arg,
                        capture_dtypes |-> last.capture_dtypes], 1, <<>>).sch

\* C20: the columns of the meta DaskExecutor.transform predicts are the
\* columns LocalExecutor.transform returns for each partition.
C20_MetaIsPartitionLayout ==
    \A p \in Partitions :
        (last.fn = "DaskExecutor.transform" /\ last.nodes # <<>>
         /\ last.parts[p].done /\ last.parts[p].err = Ok)
        => ColumnNames(last.parts[p].tbl) = last.meta

\* ------------------------------------------- claims: the operator contract
\* The names a selector names that a schema does not hold
Absent(selector, schema) ==
    SelectSeq(selector.names, LAMBDA name : name \notin ToSet(column_names(schema)))
SchemaMethods == {"compute_selector", "compute_input_schema", "compute_output_schema"}

\* C21: compute_selector, compute_input_schema and compute_output_schema raise
\* the missing-column ValueError exactly when the selector names a column the
\* schema it is resolved against does not hold, and the error carries exactly
\* the absent names, the operator's class and the name of the method.
C21_MissingColumnsDetected ==
    bo.call.method \in SchemaMethods =>
        /\ bo.call.result.err.kind = "ValueError" <=> Absent(bo.call.selector, InputSchema) # <<>>
        /\ Absent(bo.call.selector, InputSchema) # <<>> =>
               bo.call.result.err = MissingColumns(bo.operator.cls, bo.call.method,
                                                   Absent(bo.call.selector, InputSchema))

\* compute_selector was given the selector of c against the schema of a and b
C21_Witness ==
    /\ bo.call.method = "compute_selector"
    /\ bo.call.selector.names = <<"c">>
    /\ ToSet(column_names(InputSchema)) = {"a", "b"}
    /\ bo.call.result.err = MissingColumns(bo.operator.cls, "compute_selector", <<"c">>)

\* C22: compute_input_schema, when every name of the selector resolves,
\* returns the parents' columns followed by the dependencies' columns that the
\* parents do not hold, a dependency's descriptor standing for the parent's of
\* the same name; the result is the same for every root schema and holds the
\* columns the selector does not name too.
C22_InputSchemaIsUnion ==
    bo.call.method = "compute_input_schema" /\ Absent(bo.call.selector, InputSchema) = <<>> =>
        /\ bo.call.result.err = NoError
        /\ column_names(bo.call.result.value) =
              column_names(bo.parents_schema)
              \o SelectSeq(column_names(bo.deps_schema),
                           LAMBDA n : n \notin ToSet(column_names(bo.parents_schema)))
        /\ \A i \in 1..Len(bo.call.result.value) :
              bo.call.result.value[i] =
                  IF bo.call.result.value[i].name \in ToSet(column_names(bo.deps_schema))
                  THEN SchemaColumn(bo.deps_schema, bo.call.result.value[i].name)
                  ELSE SchemaColumn(bo.parents_schema, bo.call.result.value[i].name)
        /\ \A root_schema \in RootSchemas :
              compute_input_schema(bo.operator, root_schema, bo.parents_schema, bo.deps_schema,
                                   bo.call.selector) = bo.call.result

\* compute_input_schema returned for the selector of a alone, with a root
\* schema, the parents' a and b and the dependencies' a and c: a is the
\* dependencies' a
C22_Witness ==
    /\ bo.call.method = "compute_input_schema"
    /\ bo.call.selector.names = <<"a">> /\ bo.call.selector.tags = {}
    /\ bo.root_schema # <<>>
    /\ column_names(bo.parents_schema) = <<"a", "b">>
    /\ column_names(bo.call.result.value) = <<"a", "b", "c">>
    /\ bo.call.result.value[1] = SchemaColumn(bo.deps_schema, "a")
    /\ bo.call.result.value[1] # SchemaColumn(bo.parents_schema, "a")

\* The items of column_mapping for the call of compute_output_schema
MappedItems == column_mapping(bo.operator, ExpandedSelector(InputSchema, bo.call.selector))
\* The call returned a schema whose dtypes were derived, not taken from a
\* previous output schema
DerivedDtypes == ~(bo.operator.dynamic_dtypes /\ bo.call.prev # <<>>)

\* C23: every column compute_output_schema returns has the is_list and
\* is_ragged flags, the tags and the properties of the first input column it
\* is mapped from, with output_tags added and output_properties written over
\* them, and the dtype of that column unless output_dtype is declared, which
\* then is its dtype; whatever the number of input columns.
C23_InheritsFromFirstInputColumn ==
    bo.call.method = "compute_output_schema" /\ bo.call.result.err = NoError =>
        \A i \in 1..Len(MappedItems) :
            MappedItems[i].in # <<>> =>
                /\ SchemaColumn(bo.call.result.value, MappedItems[i].out).is_list =
                       SchemaColumn(InputSchema, MappedItems[i].in[1]).is_list
                /\ SchemaColumn(bo.call.result.value, MappedItems[i].out).is_ragged =
                       SchemaColumn(InputSchema, MappedItems[i].in[1]).is_ragged
                /\ SchemaColumn(bo.call.result.value, MappedItems[i].out).tags =
                       SchemaColumn(InputSchema, MappedItems[i].in[1]).tags
                       \cup bo.operator.output_tags
                /\ SchemaColumn(bo.call.result.value, MappedItems[i].out).properties =
                       Update(SchemaColumn(InputSchema, MappedItems[i].in[1]).properties,
                              bo.operator.output_properties)
                /\ DerivedDtypes =>
                       SchemaColumn(bo.call.result.value, MappedItems[i].out).dtype =
                           IF bo.operator.output_dtype # NoDtype THEN bo.operator.output_dtype
                           ELSE SchemaColumn(InputSchema, MappedItems[i].in[1]).dtype

\* C24: when the operator's dynamic_dtypes is true and a previous output
\* schema (with columns) is given, every column compute_output_schema returns
\* has the dtype of the column of that name in the previous output schema,
\* whatever the input schema and output_dtype give; when dynamic_dtypes is
\* false the result is the same for every previous output schema.
C24_DynamicDtypesReusePrevious ==
    bo.call.method = "compute_output_schema" =>
        /\ bo.operator.dynamic_dtypes /\ bo.call.prev # <<>> /\ bo.call.result.err = NoError =>
               \A i \in 1..Len(bo.call.result.value) :
                   bo.call.result.value[i].dtype =
                       SchemaColumn(bo.call.prev, bo.call.result.value[i].name).dtype
        /\ ~bo.operator.dynamic_dtypes =>
               \A prev_output_schema \in PrevOutputSchemas :
                   compute_output_schema(bo.operator, InputSchema, bo.call.selector,
                                         prev_output_schema) = bo.call.result

\* An operator with dynamic_dtypes and output_dtype float32 returned the
\* column a2 with the int32 of the previous output schema
C24_Witness ==
    /\ bo.call.method = "compute_output_schema"
    /\ bo.operator.dynamic_dtypes /\ bo.operator.output_dtype = "float32"
    /\ bo.call.prev # <<>>
    /\ bo.call.result.err = NoError
    /\ bo.call.result.value # <<>>
    /\ bo.call.result.value[1].name = "a2"
    /\ bo.call.result.value[1].dtype = "int32"

\* The keys of column_mapping(selector)
MappingKeys(operator, selector) ==
    {column_mapping(operator, selector)[i].out :
        i \in 1..Len(column_mapping(operator, selector))}

\* C25: for a selector whose names the input schema all holds, the names of
\* the schema compute_output_schema returns are the keys of
\* column_mapping(selector), which are the names output_column_names
\* returns, and with the identity mapping they are the selector's names.
C25_OutputNamesAreMappingKeys ==
    /\ bo.call.method = "compute_output_schema"
    /\ Absent(bo.call.selector, InputSchema) = <<>>
    /\ bo.call.result.err = NoError
    => /\ ToSet(column_names(bo.call.result.value)) = MappingKeys(bo.operator, bo.call.selector)
       /\ ToSet(output_column_names(bo.operator, bo.call.selector).names) =
              MappingKeys(bo.operator, bo.call.selector)
       /\ bo.operator.mapping = "identity" =>
              column_names(bo.call.result.value) = bo.call.selector.names

CaptureRun(sch, p) ==
    LocalTransform(X(Ok, None, sch, <<>>), Partition(p), graph_arg, additional_arg, TRUE).sch
\* A further capturing run on the same table leaves the schemas sch as they are
CaptureStable(sch, p) == CaptureRun(sch, p) = sch

\* C27: once LocalExecutor.transform has run with capture_dtypes=True on a
\* table and has run a second time on the same table and graph, a third run
\* changes no node's output schema.
C27_CaptureIdempotent ==
    last.fn = "LocalExecutor.transform" /\ last.capture_dtypes =>
        CaptureStable(CaptureRun(output_schema, last.partition), last.partition)

\* A capturing run on a table with rows has changed a dtype of node 3's
\* output schema and returned the table
C27_Witness ==
    /\ last.fn = "LocalExecutor.transform" /\ last.capture_dtypes
    /\ last.err = Ok
    /\ Partition(last.partition).rows > 0
    /\ output_schema[3] # last.before[3]
    /\ CaptureRun(output_schema, last.partition) = output_schema

\* ------------------------------------------- claims: the client setting
\* The caller's latest setting of the client is set_dask_client(None, ...) or
\* the activation of a Serial context
SerialMode == dask.setter \in {"Serial", "set_dask_client(None)"}

WithLaterClient(d) ==
    [d EXCEPT !.workers = @ \cup {NewClient(d)}, !.default = Append(@, NewClient(d))]
GlobalBehaviour(d) ==
    <<global_dask_client(d).result, global_dask_client(WithLaterClient(d)).result>>

\* C29: when deactivate() of a Serial or of a Distributed context has
\* returned, global_dask_client() behaves as it would if the setting were
\* still the one in force before the context was constructed: it returns the
\* same client now, and the same client once a Dask client is created later.
C29_DeactivateRestoresSetting ==
    /\ dask.call.fn = "Serial.deactivate" /\ dask.call.err = "" =>
           GlobalBehaviour(dask) = GlobalBehaviour([dask EXCEPT !.setting = dask.serial.before])
    /\ dask.call.fn = "Distributed.deactivate" /\ dask.call.err = "" =>
           GlobalBehaviour(dask) =
               GlobalBehaviour([dask EXCEPT !.setting = dask.distributed.before])

\* C30: a Distributed instance closes only clients of clusters it generated
\* itself: whenever a client has been closed, either no active client was
\* detected at construction or force_new was set, and every closed client is
\* one deployed by an activation of the instance, never one that existed
\* before or that the caller supplied.
C30_ClosesOnlyGeneratedClients ==
    dask.closed # {} =>
        /\ dask.distributed.detected = NoClient \/ dask.distributed.force_new
        /\ dask.closed \subseteq dask.distributed.generated

\* ------------------------------------------ claims: the order of evaluation
\* The positions of a log where node.op.transform is called
OpEvents(log) == {k \in 1..Len(log) : log[k].ev = "op"}

\* The positions where a parent's table came back to the call of
\* _build_input_data that returns at k
ParentPositions(log, k) ==
    {q \in BuildStart(log, k)..k : log[q].ev = "parent" /\ log[q].node = log[k].node}

\* The parents that returned to the call of _build_input_data that returns
\* at k, in the order they returned
ParentsReturned(log, k) ==
    [i \in 1..Len(ParentEvents(log, k)) |-> ParentEvents(log, k)[i].arg]

\* The position where the transform of the parent that returns at q began
TransformStart(log, q) ==
    CHOOSE s \in 1..q :
        /\ log[s].ev = "build" /\ log[s].node = log[q].arg
        /\ \A t \in (s + 1)..q : ~(log[t].ev = "build" /\ log[t].node = log[q].arg)

\* The parent that returns at q was evaluated on its own: its transform began
\* right after the caller's _build_input_data began or the previous parent
\* returned, and the caller did nothing until it had returned a table
EvaluatedAlone(log, q) ==
    /\ log[TransformStart(log, q) - 1].node = log[q].node
    /\ log[TransformStart(log, q) - 1].ev \in {"build", "parent"}
    /\ \A t \in TransformStart(log, q)..(q - 1) : log[t].node # log[q].node
    /\ log[q - 1].ev \in {"input", "transformed"} /\ log[q - 1].node = log[q].arg
    /\ ~log[q].tbl.none

\* The operator transform called at j has returned before position k
ReturnedBefore(log, j, k) ==
    j + 1 < k /\ log[j + 1].ev = "returned" /\ log[j + 1].node = log[j].node

\* C31: in every run of LocalExecutor.transform, the operator transform of a
\* node is called right after the node's input was built, when all its parents
\* and dependency nodes have returned their tables, one after the other in
\* parents_with_dependencies order, and every operator transform called
\* earlier has returned.
C31_ParentsBeforeOperator ==
    \A r \in Runs : \A k \in OpEvents(r.log) :
        /\ k > 1 /\ r.log[k - 1].ev = "input" /\ r.log[k - 1].node = r.log[k].node
        /\ ParentsReturned(r.log, k - 1) = parents_with_dependencies[r.log[k].node]
        /\ \A q \in ParentPositions(r.log, k - 1) : EvaluatedAlone(r.log, q)
        /\ \A j \in OpEvents(r.log) : j < k => ReturnedBefore(r.log, j, k)

\* A run where the operator of node 3 was called after its two parents, one
\* of which ran an operator of its own after its own parent
C31_Witness ==
    \E r \in Runs : \E k \in OpEvents(r.log) :
        /\ r.log[k].node = 3
        /\ Len(parents_with_dependencies[3]) = 2
        /\ parents_with_dependencies[2] = <<1>>
        /\ \E j \in OpEvents(r.log) : j < k /\ r.log[j].node = 2

\* The number of paths from node from to node to along the edges of
\* parents_with_dependencies; a list element that is not a node starts none
RECURSIVE PathsFrom(_, _, _)
PathCount(from, to) ==
    IF from = NotANode THEN 0 ELSE IF from = to THEN 1 ELSE PathsFrom(from, to, 1)
PathsFrom(from, to, i) ==
    IF i > Len(parents_with_dependencies[from]) THEN 0
    ELSE PathCount(parents_with_dependencies[from][i], to) + PathsFrom(from, to, i + 1)

\* The number of paths from the target nodes of a call, from the i-th on, to node
RECURSIVE PathsFromTargets(_, _, _)
PathsFromTargets(nodes, node, i) ==
    IF i > Len(nodes) THEN 0
    ELSE PathCount(nodes[i], node) + PathsFromTargets(nodes, node, i + 1)

\* How often a log records event ev of node
Count(log, ev, node) ==
    Cardinality({k \in 1..Len(log) : log[k].ev = ev /\ log[k].node = node})

\* C32: LocalExecutor.transform keeps no results: in a run that returns, the
\* input of a node is built once for every path from a target node to the
\* node, and a node that has an operator has its operator transform called
\* once for every such path (a node two branches share is executed twice);
\* a run cut short by an exception has done no more than that.  The number of
\* paths of an acyclic graph is finite, so the run ends.
C32_OncePerPath ==
    \A r \in Runs : \A n \in Nodes :
        /\ Count(r.log, "build", n) <= PathsFromTargets(r.nodes, n, 1)
        /\ Count(r.log, "op", n) <= Count(r.log, "build", n)
        /\ r.err = Ok =>
              /\ Count(r.log, "build", n) = PathsFromTargets(r.nodes, n, 1)
              /\ Count(r.log, "op", n) =
                     IF op[n].kind = "noop" THEN 0 ELSE PathsFromTargets(r.nodes, n, 1)

\* A run that returned on a diamond: node 1 is reached from node 3 directly
\* and through node 2, and its operator transform was called twice
C32_Witness ==
    \E r \in Runs :
        /\ r.err = Ok
        /\ PathsFromTargets(r.nodes, 1, 1) = 2
        /\ Count(r.log, "op", 1) = 2

\* ------------------------------------------------ claims: the input table
\* No name occurs twice in a sequence of names
Distinct(names) == Cardinality(ToSet(names)) = Len(names)

\* C33: the table _build_input_data returns for a node holds no column name
\* twice, for a node with parents and for a node without, also when a
\* dependency column of the node is a column of its input schema.
C33_InputColumnsDistinct ==
    \A r \in Runs : \A k \in InputEvents(r.log) : Distinct(ColumnNames(r.log[k].tbl))

\* ------------------------------------- claims: the Distributed life cycle
\* C34: after any sequence of construction, __enter__, __exit__, deactivate
\* and __del__ calls on a Distributed instance, an active instance holds a
\* client object (neither "auto" nor None), deactivate never calls close() on
\* a missing client (the AttributeError of None.close()), and an activation
\* is shut down once: deactivate closes at most one client, and none when the
\* instance was not active.
C34_ActiveInstanceHoldsClient ==
    /\ dask.distributed.exists /\ dask.distributed._active =>
           dask.distributed._client.kind = "client"
    /\ dask.call.fn = "Distributed.deactivate" =>
           /\ dask.call.err # "AttributeError"
           /\ Cardinality(dask.call.closed) <= 1
           /\ ~dask.call.was_active => dask.call.closed = {}

\* ------------------------------------------------ claims: shapes
\* What is said of the sizes of a Dimension
ValidSizes(min, max) == min # NoSize /\ min.v >= 0 /\ (max = NoSize \/ max.v >= min.v)

\* The Dimensions built so far, by Dimension(min, max) and inside the Shapes
Dimensions ==
    (IF shapes.dimension.err = "" THEN {shapes.dimension.obj} ELSE {})
    \cup UNION {ToSet(shapes.objects[i].obj.dims) : i \in 1..3}

\* C35: Dimension(min, max) builds a Dimension exactly when min is not None,
\* min >= 0 and max is None or max >= min, and raises ValueError for every
\* other pair; so every Dimension there is, also one built inside a Shape,
\* has such sizes.
C35_DimensionSizesValid ==
    /\ shapes.dimension # NotBuilt =>
          /\ shapes.dimension.err = "" <=> ValidSizes(shapes.min, shapes.max)
          /\ shapes.dimension.err \in {"", "ValueError"}
    /\ \A d \in Dimensions : ValidSizes(d.min, d.max)

\* The Shapes built so far, by their positions
ShapesBuilt == {i \in 1..3 : shapes.objects[i].err = ""}
ShapeAt(i) == shapes.objects[i].obj

\* C36: a Shape whose dims are None compares equal to every Shape, on either
\* side of ==, so equality is not transitive: whenever A and B are Shapes with
\* different known dims and U is a Shape with unknown dims, A == U and U == B
\* while A != B; the comparisons made say the same.
C36_UnknownShapeBreaksTransitivity ==
    /\ \A a \in ShapesBuilt, b \in ShapesBuilt, u \in ShapesBuilt :
          ~ShapeAt(u).known =>
              /\ Equals(ShapeAt(a), ShapeAt(u)) /\ Equals(ShapeAt(u), ShapeAt(b))
              /\ (ShapeAt(a).known /\ ShapeAt(b).known /\ ShapeAt(a).dims # ShapeAt(b).dims)
                     => ~Equals(ShapeAt(a), ShapeAt(b))
    /\ (/\ shapes.compared.done
        /\ shapes.compared.left \in ShapesBuilt /\ shapes.compared.right \in ShapesBuilt
        /\ ~ShapeAt(shapes.compared.left).known \/ ~ShapeAt(shapes.compared.right).known)
       => shapes.compared.eq /\ ~shapes.compared.ne

\* Shapes A and B of different known dims and an unknown Shape U were built,
\* and A != B has been evaluated to true
C36_Witness ==
    /\ ShapesBuilt = {1, 2, 3}
    /\ ShapeAt(1).known /\ ShapeAt(2).known /\ ~ShapeAt(3).known
    /\ ShapeAt(1).dims # ShapeAt(2).dims
    /\ shapes.compared.done /\ shapes.compared.left = 1 /\ shapes.compared.right = 2
    /\ shapes.compared.ne

\* Two Shapes were built and exactly one of them has unknown dims
OneUnknown(i, j) ==
    /\ i \in ShapesBuilt /\ j \in ShapesBuilt
    /\ ShapeAt(i).known # ShapeAt(j).known

\* C37 as stated: among Shapes of which one has unknown dims there are A and
\* B, one of the two with unknown dims, for which A == B and B == A differ.
C37_UnknownShapeAsymmetric ==
    (\E i \in 1..3, j \in 1..3 : OneUnknown(i, j)) =>
        \E i \in 1..3, j \in 1..3 :
            /\ OneUnknown(i, j)
            /\ Equals(ShapeAt(i), ShapeAt(j)) # Equals(ShapeAt(j), ShapeAt(i))

\* C37: Shape equality is symmetric: for all objects A and B that are Shapes
\* or Dimensions, A == B and B == A give the same result, and a Shape with
\* unknown dims equals a Shape with known dims from either side; the
\* comparisons made say the same.
C37_ShapeEqualitySymmetric ==
    /\ \A i \in 0..3, j \in 0..3 :
          (Object(i).err = "" /\ Object(j).err = "") =>
              Equals(Object(i).obj, Object(j).obj) = Equals(Object(j).obj, Object(i).obj)
    /\ \A i \in 1..3, j \in 1..3 :
          OneUnknown(i, j) => Equals(ShapeAt(i), ShapeAt(j)) /\ Equals(ShapeAt(j), ShapeAt(i))
    /\ shapes.compared.done =>
          shapes.compared.eq = Equals(Object(shapes.compared.right).obj,
                                      Object(shapes.compared.left).obj)

\* A Shape with known dims has been compared with a Shape with unknown dims on
\* its right
C37_Witness ==
    /\ shapes.compared.done
    /\ OneUnknown(shapes.compared.left, shapes.compared.right)
    /\ ShapeAt(shapes.compared.left).known
    /\ ShapeAt(shapes.compared.left).dims # <<>>
    /\ shapes.compared.eq

====
